---- MODULE Spec2Model ----
(***************************************************************************)
(* TerminalPanel (src/src/panels/TerminalPanel.tsx), its context helpers   *)
(* (types module), the mock event emitter (mocks module) and the Storybook *)
(* MockTerminalBackend, as a state machine.                                *)
(*                                                                         *)
(* JavaScript strings whose content the code inspects or builds are        *)
(* sequences of one-character strings; ESC stands for the character \x1b.  *)
(* Time is Date.now() in milliseconds.  One action is one task of the      *)
(* JavaScript event loop: a handler together with the React render,        *)
(* commit and effects it causes.                                           *)
(* The clock does not advance within a task.                               *)
(***************************************************************************)
EXTENDS Integers, Sequences, FiniteSets, TLC

\* ------------------------------------------------------------------ bounds
\* Date.now() stops advancing here.
MaxTime == 200
\* Number of host events, widget callbacks and prop changes in one behaviour.
MaxEvents == 3
\* The same under a host that passes another context (scope or terminal slice)
\* or a terminalScope: these choose the cwd of createTerminalSession and the
\* session the header shows.
HostEvents == 1

\* --------------------------------------------------------- JavaScript values
ESC == "ESC"
NULL == <<"<null>">>
UNDEFINED == <<"<undefined>">>

\* JavaScript truthiness of a value of type string | null | undefined.
Truthy(s) == s # NULL /\ s # UNDEFINED /\ s # <<>>

\* a ?? b
Nullish(a, b) == IF a = NULL \/ a = UNDEFINED THEN b ELSE a

\* a || b on strings
OrElse(a, b) == IF Truthy(a) THEN a ELSE b

\* String.prototype.includes
Includes(s, pat) ==
    \E i \in 1..(Len(s) - Len(pat) + 1) : SubSeq(s, i, i + Len(pat) - 1) = pat

Digit(d) == <<"0", "1", "2", "3", "4", "5", "6", "7", "8", "9">>[d + 1]

RECURSIVE NatToString(_)
NatToString(n) == IF n < 10 THEN <<Digit(n)>>
                  ELSE NatToString(n \div 10) \o <<Digit(n % 10)>>

\* String(n) / `${n}` for an integer n
NumberToString(n) == IF n < 0 THEN <<"-">> \o NatToString(-n) ELSE NatToString(n)

NoActionsMessage ==
    <<"T", "e", "r", "m", "i", "n", "a", "l", " ", "a", "c", "t", "i", "o", "n", "s", " ",
      "n", "o", "t", " ", "a", "v", "a", "i", "l", "a", "b", "l", "e", ".", " ", "H", "o",
      "s", "t", " ", "m", "u", "s", "t", " ", "p", "r", "o", "v", "i", "d", "e", " ", "c",
      "r", "e", "a", "t", "e", "T", "e", "r", "m", "i", "n", "a", "l", "S", "e", "s", "s",
      "i", "o", "n", " ", "a", "c", "t", "i", "o", "n", ".">>
ExitMessagePrefix ==
    <<"T", "e", "r", "m", "i", "n", "a", "l", " ", "p", "r", "o", "c", "e", "s", "s", " ",
      "e", "x", "i", "t", "e", "d", " ", "w", "i", "t", "h", " ", "c", "o", "d", "e", " ">>
SpawnFailedMessage ==
    <<"F", "a", "i", "l", "e", "d", " ", "t", "o", " ", "s", "p", "a", "w", "n", " ", "t",
      "e", "r", "m", "i", "n", "a", "l", " ", "p", "r", "o", "c", "e", "s", "s", ":", " ",
      "E", "N", "O", "E", "N", "T">>
CursorHome ==
    <<ESC, "[", "H">>
MoveToBottom ==
    <<ESC, "[", "9", "9", "9", "9", ";", "1", "H">>
TerminalTitle == <<"T", "e", "r", "m", "i", "n", "a", "l">>

ClearScreenHome ==
    <<ESC, "[", "2", "J", ESC, "[", "H">>
MockSessionPrefix ==
    <<"m", "o", "c", "k", "-", "s", "e", "s", "s", "i", "o", "n", "-">>
DefaultMockCwd ==
    <<"/", "U", "s", "e", "r", "s", "/", "d", "e", "v", "e", "l", "o", "p", "e", "r", "/",
      "m", "y", "-", "p", "r", "o", "j", "e", "c", "t">>
Project1Path ==
    <<"/", "U", "s", "e", "r", "s", "/", "d", "e", "v", "e", "l", "o", "p", "e", "r", "/",
      "p", "r", "o", "j", "e", "c", "t", "-", "1">>
Project2Path ==
    <<"/", "U", "s", "e", "r", "s", "/", "d", "e", "v", "e", "l", "o", "p", "e", "r", "/",
      "p", "r", "o", "j", "e", "c", "t", "-", "2">>
PromptHead ==
    <<ESC, "[", "1", ";", "3", "2", "m", "➜", ESC, "[", "0", "m", " ", " ", ESC, "[", "1",
      ";", "3", "6", "m">>
PromptTail ==
    <<ESC, "[", "0", "m", " ", ESC, "[", "1", ";", "3", "4", "m", "g", "i", "t", ":", "(",
      ESC, "[", "1", ";", "3", "1", "m", "m", "a", "i", "n", ESC, "[", "1", ";", "3", "4",
      "m", ")", ESC, "[", "0", "m", " ", "$", " ">>

\* ------------------------------------------------------- program constants
\* Delay of the auto-scroll timer and the quiet period it tests, in ms.
AutoScrollDelay == 100
QuietPeriod == 100
\* Initial value of autoScrollTimeout (null); timer ids are positive.
NoTimer == 0

\* --------------------------------------------------------------- the model
Panels == {1, 2}
Emitters == {1, 2}
EventTypes == {"terminal:data", "terminal:exit", "terminal:created"}

VARIABLES
    now,          \* Date.now()
    used,         \* environment inputs consumed so far
    props,        \* props[p]: context, terminalScope, actions, events of panel p
    panel,        \* panel[p]: React state, refs and effect closures of panel p
    widget,       \* widget[p]: what the terminal widget was given and reported
    calls,        \* calls[p]: the actions panel p has called, with arguments
    handlers,     \* handlers[e][type]: handlers subscribed on emitter e
    timers,       \* pending setTimeout callbacks, in creation order
    nextTimerId,  \* id the next setTimeout returns
    backend,      \* the global MockTerminalBackend of the stories
    heard,        \* heard[p]: history of the events addressed to panel p
    mockEvents    \* a createMockEvents() emitter driven by hand, with probes

vars == <<now, used, props, panel, widget, calls, handlers, timers, nextTimerId,
          backend, heard, mockEvents>>

\* The state the operations below transform (now and used are passed apart).
State ==
    [props |-> props, panel |-> panel, widget |-> widget, calls |-> calls,
     handlers |-> handlers, timers |-> timers, nextTimerId |-> nextTimerId,
     backend |-> backend, mockEvents |-> mockEvents]

Becomes(s) ==
    /\ props' = s.props
    /\ panel' = s.panel
    /\ widget' = s.widget
    /\ calls' = s.calls
    /\ handlers' = s.handlers
    /\ timers' = s.timers
    /\ nextTimerId' = s.nextTimerId
    /\ backend' = s.backend
    /\ mockEvents' = s.mockEvents

\* ------------------------------------------------- context helpers (types)
getRepositoryPath(context) ==
    IF context.repository.present THEN context.repository.path ELSE NULL

getWorkspacePath(context) ==
    IF context.workspace.present THEN context.workspace.path ELSE NULL

\* Faulty variant: the 'workspace' case is missing, so every scope takes the default branch.
getTerminalDirectory_noWorkspaceCase(context, terminalScope) ==
    Nullish(getRepositoryPath(context), getWorkspacePath(context))

getTerminalDirectory(context, terminalScope) ==
    LET scope == IF terminalScope = "undefined" THEN "repository" ELSE terminalScope
    IN  CASE scope = "workspace" -> getWorkspacePath(context)
          [] scope = "repository" ->
                Nullish(getRepositoryPath(context), getWorkspacePath(context))
          [] OTHER ->
                Nullish(getRepositoryPath(context), getWorkspacePath(context))

\* The options object initTerminal passes: cwd: terminalDirectory || undefined.
CreateOptions(context, terminalScope) ==
    [cwd |-> OrElse(getTerminalDirectory(context, terminalScope), UNDEFINED)]

\* The 'terminal' slice of a context: absent, or present with data that is
\* null/undefined (hasData FALSE) or a list of sessions [id, cwd].
NoSlice == [present |-> FALSE, hasData |-> FALSE, data |-> <<>>]

\* Absent session (undefined), and a session found.
NoSession == [present |-> FALSE, id |-> <<>>, cwd |-> <<>>]
Found(session) == [present |-> TRUE, id |-> session.id, cwd |-> session.cwd]

\* slice?.data ?? []
getTerminalSessions(context) ==
    LET slice == context.terminal
    IN  IF slice.present /\ slice.hasData THEN slice.data ELSE <<>>

\* Faulty variant: the last matching session instead of the first.
getTerminalSession_lastMatch(context, sessionId) ==
    LET sessions == getTerminalSessions(context)
        matches == {i \in DOMAIN sessions : sessions[i].id = sessionId}
    IN  IF matches = {} THEN NoSession
        ELSE Found(sessions[CHOOSE i \in matches : \A j \in matches : j <= i])

\* sessions.find((s) => s.id === sessionId)
getTerminalSession(context, sessionId) ==
    LET sessions == getTerminalSessions(context)
        matches == {i \in DOMAIN sessions : sessions[i].id = sessionId}
    IN  IF matches = {} THEN NoSession
        ELSE Found(sessions[CHOOSE i \in matches : \A j \in matches : i <= j])

\* ---------------------------------------------------- event emitter (mocks)
NoHandlers == [e \in Emitters |-> [ty \in EventTypes |-> {}]]

\* The handlers Map of one emitter is a function from the types it has a Set
\* for to those Sets.  handlers.get(type), undefined read as no handler.
subscribed(m, type) == IF type \in DOMAIN m THEN m[type] ELSE {}

\* on(type, handler): the Set of the type is created if missing, and the
\* handler joins it.
on(m, type, h) ==
    [x \in DOMAIN m \cup {type} |-> IF x = type THEN subscribed(m, type) \cup {h} ELSE m[x]]

\* Faulty variant: off removes the handler from the Sets of all types.
off_anyType(m, type, h) == [x \in DOMAIN m |-> m[x] \ {h}]

\* off(type, handler): handlers.get(type)?.delete(handler).
off(m, type, h) ==
    IF type \in DOMAIN m THEN [m EXCEPT ![type] = @ \ {h}] ELSE m

\* The function on() returns does what off does.
unsubscribe(m, type, h) == off(m, type, h)

\* The same on the emitter e of the model's state.
On(hs, e, type, h) == [hs EXCEPT ![e] = on(@, type, h)]

Off(hs, e, type, h) == [hs EXCEPT ![e] = unsubscribe(@, type, h)]

\* ------------------------------------------------------------------ timers
SetTimeout(s, t, delay, task) ==
    [s EXCEPT !.timers = Append(@, [id |-> s.nextTimerId, due |-> t + delay] @@ task),
              !.nextTimerId = @ + 1]

ClearTimeout(s, id) ==
    [s EXCEPT !.timers = SelectSeq(@, LAMBDA tm : tm.id # id)]

\* ----------------------------------------------------------- TerminalPanel
\* useState initial values, the ref, and no effect run yet.
NoSubscription ==
    [live |-> FALSE, sessionId |-> NULL, events |-> 0, lastWriteTime |-> 0,
     cursorMovedToHome |-> FALSE, autoScrollTimeout |-> NoTimer]

\* sessionId, error and isInitializing are the component's state as the setters
\* leave it; shown holds the values the last render read, which are the values
\* its closures (the handlers passed to the widget, the effects) keep.  effects
\* tells which passive effects of the last commit have not run yet: "mount" the
\* first run of both effects, "update" the cleanups and runs an update or an
\* unmount left.
InitialState == [sessionId |-> NULL, error |-> NULL, isInitializing |-> TRUE]

FreshPanel ==
    [phase |-> "unmounted", sessionId |-> NULL, error |-> NULL,
     isInitializing |-> TRUE, shown |-> InitialState, effects |-> "none",
     view |-> "none", terminalRef |-> FALSE,
     pending |-> FALSE, promised |-> NULL, initDeps |-> <<>>,
     cleanupSessionId |-> NULL, subDeps |-> <<NULL, 0>>, sub |-> NoSubscription]

\* The state a render of the panel would read.
StateOf(pn) ==
    [sessionId |-> pn.sessionId, error |-> pn.error, isInitializing |-> pn.isInitializing]

\* Nothing is left for the framework to do for the panel: no effect to run, no
\* continuation of an await that has been resolved, no render.
Idle(pn) ==
    /\ pn.effects = "none"
    /\ ~(pn.pending /\ pn.promised # NULL)
    /\ ~(pn.phase = "mounted" /\ StateOf(pn) # pn.shown)

\* A state update is queued: the next render will read other values.
NeedsRender(pn) == pn.phase = "mounted" /\ StateOf(pn) # pn.shown

\* Faulty variant: the widget is returned whenever there is a session, the error
\* only without one.
RenderBranch_sessionFirst(pn) ==
    IF Truthy(pn.sessionId) /\ ~pn.isInitializing THEN "terminal"
    ELSE IF Truthy(pn.error) THEN "error"
    ELSE "initializing"

\* The three return statements of the component.
RenderBranch(pn) ==
    IF Truthy(pn.error) THEN "error"
    ELSE IF pn.isInitializing \/ ~Truthy(pn.sessionId) THEN "initializing"
    ELSE "terminal"

\* Render and commit: the widget's ref is set exactly while the widget is shown.
\* sessionId ? getTerminalSession(context, sessionId) : undefined
sessionInfo(s, p) ==
    IF Truthy(s.panel[p].shown.sessionId)
    THEN getTerminalSession(s.props[p].context, s.panel[p].shown.sessionId)
    ELSE NoSession

\* headerTitle={sessionInfo?.cwd || 'Terminal'}
headerTitle(s, p) ==
    LET info == sessionInfo(s, p)
    IN  OrElse(IF info.present THEN info.cwd ELSE UNDEFINED, TerminalTitle)

Commit(s, p) ==
    LET v == RenderBranch(s.panel[p].shown)
    IN  [s EXCEPT !.panel[p].view = v, !.panel[p].terminalRef = (v = "terminal"),
                  !.widget[p].headerTitle = IF v = "terminal" THEN headerTitle(s, p)
                                            ELSE NULL]

\* Faulty variant: the init effect depends on the repository path, as an effect that
\* follows the repository selection would.
InitEffectDeps_repositoryPath(pr) == <<getRepositoryPath(pr.context)>>

\* Dependency lists of the two effects.
InitEffectDeps(pr) == <<>>

SubscriptionDeps(pn, pr) == <<pn.shown.sessionId, pr.events>>

\* The handler objects one run of the subscription effect registers.
HandlerOf(p, sessionId) == [panel |-> p, sessionId |-> sessionId]

\* Faulty variant: initTerminal without the test for a missing action.
InitTerminal_noGuard(s, p, t) ==
    [s EXCEPT !.calls[p].createTerminalSession =
                    Append(@, CreateOptions(s.props[p].context, s.props[p].terminalScope)),
              !.panel[p].pending = TRUE]

\* initTerminal up to its await, or its catch when the action is missing.
\* With the stories' mock actions the call runs MockTerminalBackend.createSession.
InitTerminal(s, p, t) ==
    LET pr == s.props[p]
        options == CreateOptions(pr.context, pr.terminalScope)
    IN  IF ~pr.actions.createTerminalSession
        THEN [s EXCEPT !.panel[p].error = NoActionsMessage,
                       !.panel[p].isInitializing = FALSE]
        ELSE [s EXCEPT
                !.calls[p].createTerminalSession = Append(@, options),
                !.panel[p].pending = TRUE]

\* The continuation of the await: setSessionId(id); setIsInitializing(false).
\* React ignores state updates of a component that is no longer mounted.
InitTerminalResolved(s, p, id) ==
    IF s.panel[p].phase = "mounted"
    THEN [s EXCEPT !.panel[p].sessionId = id,
                   !.panel[p].isInitializing = FALSE,
                   !.panel[p].pending = FALSE]
    ELSE [s EXCEPT !.panel[p].pending = FALSE]

\* Faulty variant: err.message whatever err is.
ErrorText_messageOnly(err) == err.message

\* err instanceof Error ? err.message : String(err)
ErrorText(err) ==
    CASE err.kind = "Error" -> err.message
      [] err.kind = "string" -> err.text
      [] err.kind = "number" -> NumberToString(err.number)
      [] OTHER -> <<"u", "n", "d", "e", "f", "i", "n", "e", "d">>

\* The catch block: setError(...); setIsInitializing(false).
InitTerminalRejected(s, p, err) ==
    IF s.panel[p].phase = "mounted"
    THEN [s EXCEPT !.panel[p].error = ErrorText(err),
                   !.panel[p].isInitializing = FALSE,
                   !.panel[p].pending = FALSE]
    ELSE [s EXCEPT !.panel[p].pending = FALSE]

\* The sessionId the init effect's cleanup closes over: the one of the render
\* whose effect ran.
CapturedSessionId(s, p) == s.panel[p].shown.sessionId

RunInitEffect(s, p, t) ==
    InitTerminal([s EXCEPT !.panel[p].cleanupSessionId = CapturedSessionId(s, p),
                           !.panel[p].initDeps = InitEffectDeps(s.props[p])], p, t)

\* Cleanup of the init effect.
InitCleanup(s, p) ==
    LET sid == s.panel[p].cleanupSessionId
    IN  IF Truthy(sid) /\ s.props[p].actions.destroyTerminalSession
        THEN [s EXCEPT !.calls[p].destroyTerminalSession = Append(@, sid)]
        ELSE s

\* Faulty variant: the cleanup unsubscribes but leaves the timer pending.
SubscriptionCleanup_keepsTimer(s, p) ==
    LET sub == s.panel[p].sub
        h == HandlerOf(p, sub.sessionId)
    IN  IF ~sub.live THEN s
        ELSE [s EXCEPT
                !.handlers = Off(Off(@, sub.events, "terminal:data", h),
                                 sub.events, "terminal:exit", h),
                !.panel[p].sub = NoSubscription]

\* Cleanup of the subscription effect: clearTimeout, unsubscribeData, unsubscribeExit.
SubscriptionCleanup(s, p) ==
    LET sub == s.panel[p].sub
        h == HandlerOf(p, sub.sessionId)
        s1 == IF sub.autoScrollTimeout # NoTimer
              THEN ClearTimeout(s, sub.autoScrollTimeout) ELSE s
    IN  IF ~sub.live THEN s
        ELSE [s1 EXCEPT
                !.handlers = Off(Off(@, sub.events, "terminal:data", h),
                                 sub.events, "terminal:exit", h),
                !.panel[p].sub = NoSubscription]

\* One run of the subscription effect: nothing without a session id, otherwise
\* fresh closure variables and the two events.on calls.
RunSubscriptionEffect(s, p) ==
    LET pn == s.panel[p]
        pr == s.props[p]
        sid == pn.shown.sessionId
        h == HandlerOf(p, sid)
        s0 == [s EXCEPT !.panel[p].subDeps = SubscriptionDeps(pn, pr)]
    IN  IF ~Truthy(sid) THEN s0
        ELSE [s0 EXCEPT
                !.handlers = On(On(@, pr.events, "terminal:data", h),
                                pr.events, "terminal:exit", h),
                !.panel[p].sub = [live |-> TRUE, sessionId |-> sid,
                                  events |-> pr.events, lastWriteTime |-> 0,
                                  cursorMovedToHome |-> FALSE,
                                  autoScrollTimeout |-> NoTimer]]

\* A render and its commit: the component function reads the state, one of
\* the three views is committed and the widget's ref attached or detached.  The
\* effects whose dependencies changed are left to run after the commit.  A
\* component that is no longer mounted is not rendered.
Render(s, p) ==
    LET s1 == Commit([s EXCEPT !.panel[p].shown = StateOf(s.panel[p])], p)
        changed == \/ s1.panel[p].initDeps # InitEffectDeps(s1.props[p])
                   \/ s1.panel[p].subDeps # SubscriptionDeps(s1.panel[p], s1.props[p])
    IN  IF s.panel[p].phase # "mounted" THEN s
        ELSE [s1 EXCEPT !.panel[p].effects = IF changed THEN "update" ELSE @]

\* The passive effects of the last commit: after the mount both effects, after
\* an update the effects whose dependencies changed (cleanup first, then the
\* new run), after the unmount the cleanups of both effects, in the order of
\* the effects.
RunEffects(s, p, t) ==
    LET s0 == [s EXCEPT !.panel[p].effects = "none"]
        s2 == IF s0.panel[p].initDeps # InitEffectDeps(s0.props[p])
              THEN RunInitEffect(InitCleanup(s0, p), p, t) ELSE s0
    IN  IF s.panel[p].phase = "removed"
        THEN SubscriptionCleanup(InitCleanup(s0, p), p)
        ELSE IF s.panel[p].effects = "mount"
        THEN RunSubscriptionEffect(RunInitEffect(s0, p, t), p)
        ELSE IF s2.panel[p].subDeps # SubscriptionDeps(s2.panel[p], s2.props[p])
        THEN RunSubscriptionEffect(SubscriptionCleanup(s2, p), p) ELSE s2

\* Mount: the first render, with the initial state, and its commit.
MountPanel(s, p) ==
    Commit([s EXCEPT !.panel[p] = [FreshPanel EXCEPT !.phase = "mounted",
                                                     !.effects = "mount"]], p)

\* The commit of the unmount: the view is removed and the ref detached.  The
\* cleanups of both effects are left to run after the commit; until then the
\* handlers stay registered and the timer armed.
UnmountPanel(s, p) ==
    [s EXCEPT !.panel[p].phase = "removed", !.panel[p].view = "none",
              !.panel[p].terminalRef = FALSE, !.panel[p].effects = "update"]

\* event.payload?.sessionId
OptSessionId(payload) == IF payload.present THEN payload.sessionId ELSE UNDEFINED

\* Faulty variant: the data handler does not compare session ids.
DataAccepted_anySession(s, h, event) ==
    event.payload.present /\ s.panel[h.panel].terminalRef

\* Faulty variant: the data handler does not test the widget's ref.
DataAccepted_noRef(s, h, event) == OptSessionId(event.payload) = h.sessionId

\* The test of the terminal:data handler.
DataAccepted(s, h, event) ==
    OptSessionId(event.payload) = h.sessionId /\ s.panel[h.panel].terminalRef

\* data.includes('\x1b[H')
DetectsCursorHome(data) == Includes(data, CursorHome)

\* Faulty variant: no debounce; a timer is armed by the chunks with ESC[H only,
\* and only they count as writes.
DataHandler_noDebounce(s, h, event, t) ==
    LET p == h.panel
        sub == s.panel[p].sub
        data == event.payload.data
        home == DetectsCursorHome(data)
        s1 == [s EXCEPT !.widget[p].written = Append(@, [by |-> "data", data |-> data])]
        s3 == IF home
              THEN [SetTimeout(s1, t, AutoScrollDelay,
                               [kind |-> "autoScroll", panel |-> p,
                                sessionId |-> h.sessionId, command |-> <<>>,
                                cwd |-> <<>>])
                       EXCEPT !.panel[p].sub.autoScrollTimeout = s1.nextTimerId]
              ELSE s1
    IN  IF ~DataAccepted(s, h, event) THEN s
        ELSE [s3 EXCEPT !.panel[p].sub.cursorMovedToHome = (sub.cursorMovedToHome \/ home),
                        !.panel[p].sub.lastWriteTime = IF home THEN t ELSE sub.lastWriteTime]

\* The terminal:data handler of the subscription h belongs to.
DataHandler(s, h, event, t) ==
    LET p == h.panel
        sub == s.panel[p].sub
        data == event.payload.data
        moved == sub.cursorMovedToHome \/ DetectsCursorHome(data)
        s1 == [s EXCEPT !.widget[p].written = Append(@, [by |-> "data", data |-> data])]
        s2 == IF sub.autoScrollTimeout # NoTimer
              THEN ClearTimeout(s1, sub.autoScrollTimeout) ELSE s1
        s3 == IF moved
              THEN [SetTimeout(s2, t, AutoScrollDelay,
                               [kind |-> "autoScroll", panel |-> p,
                                sessionId |-> h.sessionId, command |-> <<>>,
                                cwd |-> <<>>])
                       EXCEPT !.panel[p].sub.autoScrollTimeout = s2.nextTimerId]
              ELSE s1
    IN  IF ~DataAccepted(s, h, event) THEN s
        ELSE [s3 EXCEPT !.panel[p].sub.cursorMovedToHome = moved,
                        !.panel[p].sub.lastWriteTime = t]

\* `Terminal process exited with code ${exitCode}`
ExitMessage(exitCode) == ExitMessagePrefix \o NumberToString(exitCode)

\* Faulty variant: the exit handler does not compare session ids.
ExitAccepted_anySession(h, event) == event.payload.present

ExitAccepted(h, event) == OptSessionId(event.payload) = h.sessionId

\* Faulty variant: the exit also forgets the session.
ExitHandler_clearsSession(s, h, event, t) ==
    IF ExitAccepted(h, event) /\ s.panel[h.panel].phase = "mounted"
    THEN [s EXCEPT !.panel[h.panel].error = ExitMessage(event.payload.exitCode),
                   !.panel[h.panel].sessionId = NULL]
    ELSE s

\* The terminal:exit handler: setError(...), nothing else.  React ignores the
\* update when the component is no longer mounted.
ExitHandler(s, h, event, t) ==
    IF ExitAccepted(h, event) /\ s.panel[h.panel].phase = "mounted"
    THEN [s EXCEPT !.panel[h.panel].error = ExitMessage(event.payload.exitCode)]
    ELSE s

\* Faulty variant: the detection is not reset after the force-scroll.
AutoScrollCallback_noReset(s, p, t) ==
    LET sub == s.panel[p].sub
    IN  IF t - sub.lastWriteTime >= QuietPeriod /\ sub.cursorMovedToHome
           /\ s.panel[p].terminalRef
        THEN [s EXCEPT
                !.widget[p].written = Append(@, [by |-> "autoScroll", data |-> MoveToBottom])]
        ELSE s

\* The callback of the auto-scroll timer of panel p.
AutoScrollCallback(s, p, t) ==
    LET sub == s.panel[p].sub
        timeSinceLastWrite == t - sub.lastWriteTime
    IN  IF timeSinceLastWrite >= QuietPeriod /\ sub.cursorMovedToHome
           /\ s.panel[p].terminalRef
        THEN [s EXCEPT
                !.widget[p].written = Append(@, [by |-> "autoScroll", data |-> MoveToBottom]),
                !.panel[p].sub.cursorMovedToHome = FALSE]
        ELSE s

\* emit(event): every handler of the event's type, once.
Invoke(s, h, event, t) ==
    CASE event.type = "terminal:data" -> DataHandler(s, h, event, t)
      [] event.type = "terminal:exit" -> ExitHandler(s, h, event, t)
      [] OTHER -> s

RECURSIVE InvokeAll(_, _, _, _)
InvokeAll(s, hs, event, t) ==
    IF hs = {} THEN s
    ELSE LET h == CHOOSE x \in hs : TRUE
         IN  InvokeAll(Invoke(s, h, event, t), hs \ {h}, event, t)

Emit(s, e, event, t) == InvokeAll(s, subscribed(s.handlers[e], event.type), event, t)

\* Faulty variant: onData keeps the sessionId of the first render.
handleTerminalData_staleSessionId(s, p, data) ==
    LET sid == s.panel[p].cleanupSessionId
    IN  IF Truthy(sid) /\ s.props[p].actions.writeToTerminal
        THEN [s EXCEPT !.calls[p].writeToTerminal =
                            Append(@, [sessionId |-> sid, data |-> data])]
        ELSE s

\* onData of the widget.
handleTerminalData(s, p, data) ==
    LET sid == s.panel[p].shown.sessionId
    IN  IF Truthy(sid) /\ s.props[p].actions.writeToTerminal
        THEN [s EXCEPT !.calls[p].writeToTerminal =
                            Append(@, [sessionId |-> sid, data |-> data])]
        ELSE s

\* Faulty variant: resizeTerminal is called without the test for its presence.
handleTerminalResize_noActionTest(s, p, cols, rows) ==
    LET sid == s.panel[p].shown.sessionId
    IN  IF Truthy(sid)
        THEN [s EXCEPT !.calls[p].resizeTerminal =
                            Append(@, [sessionId |-> sid, cols |-> cols, rows |-> rows])]
        ELSE s

\* onResize of the widget.
handleTerminalResize(s, p, cols, rows) ==
    LET sid == s.panel[p].shown.sessionId
    IN  IF Truthy(sid) /\ s.props[p].actions.resizeTerminal
        THEN [s EXCEPT !.calls[p].resizeTerminal =
                            Append(@, [sessionId |-> sid, cols |-> cols, rows |-> rows])]
        ELSE s

\* The widget reports input or a resize only while it is mounted.
WidgetInput(s, p, data) ==
    handleTerminalData([s EXCEPT !.widget[p].onData = Append(@, data)], p, data)

WidgetResize(s, p, cols, rows) ==
    handleTerminalResize(
        [s EXCEPT !.widget[p].onResize = Append(@, [cols |-> cols, rows |-> rows])],
        p, cols, rows)

\* ------------------------------------------------------------- the timers
\* The event loop runs the due timer with the earliest deadline, the older first.
IsNextTimer(i) ==
    /\ timers[i].due <= now
    /\ \A j \in DOMAIN timers :
          j # i => \/ timers[j].due > timers[i].due
                   \/ (timers[j].due = timers[i].due /\ j > i)

RemoveAt(seq, i) == SubSeq(seq, 1, i - 1) \o SubSeq(seq, i + 1, Len(seq))

\* ----------------------------------------- MockTerminalBackend (the stories)
WelcomeDelay == 100
InitialCommandDelay == 200
CommandDelay == 50
\* eventEmitter before setEventEmitter is called (null); emitters are positive.
NoEmitter == 0

LsOutput ==
    <<ESC, "[", "1", ";", "3", "4", "m", "s", "r", "c", ESC, "[", "0", "m", " ", " ", " ",
      " ", " ", " ", ESC, "[", "1", ";", "3", "4", "m", "d", "i", "s", "t", ESC, "[", "0",
      "m", " ", " ", " ", " ", " ", "p", "a", "c", "k", "a", "g", "e", ".", "j", "s", "o",
      "n", " ", " ", "R", "E", "A", "D", "M", "E", ".", "m", "d", " ", " ", " ", " ", " ",
      "t", "s", "c", "o", "n", "f", "i", "g", ".", "j", "s", "o", "n", "\n">>
GitStatus1 ==
    <<ESC, "[", "1", ";", "3", "2", "m", "O", "n", " ", "b", "r", "a", "n", "c", "h", " ",
      "m", "a", "i", "n", ESC, "[", "0", "m", "\n">>
GitStatus2 ==
    <<"Y", "o", "u", "r", " ", "b", "r", "a", "n", "c", "h", " ", "i", "s", " ", "u", "p",
      " ", "t", "o", " ", "d", "a", "t", "e", " ", "w", "i", "t", "h", " ", "'", "o", "r",
      "i", "g", "i", "n", "/", "m", "a", "i", "n", "'", ".", "\n", "\n">>
GitStatus3 ==
    <<"C", "h", "a", "n", "g", "e", "s", " ", "n", "o", "t", " ", "s", "t", "a", "g", "e",
      "d", " ", "f", "o", "r", " ", "c", "o", "m", "m", "i", "t", ":", "\n">>
GitStatus4 ==
    <<" ", " ", ESC, "[", "3", "1", "m", "m", "o", "d", "i", "f", "i", "e", "d", ":", " ",
      " ", " ", "s", "r", "c", "/", "p", "a", "n", "e", "l", "s", "/", "T", "e", "r", "m",
      "i", "n", "a", "l", "P", "a", "n", "e", "l", ".", "t", "s", "x", ESC, "[", "0", "m",
      "\n", "\n">>
Help1 ==
    <<"A", "v", "a", "i", "l", "a", "b", "l", "e", " ", "m", "o", "c", "k", " ", "c", "o",
      "m", "m", "a", "n", "d", "s", ":", "\n">>
Help2 ==
    <<" ", " ", "l", "s", " ", " ", " ", " ", " ", " ", " ", " ", " ", " ", " ", "-", " ",
      "L", "i", "s", "t", " ", "f", "i", "l", "e", "s", "\n">>
Help3 ==
    <<" ", " ", "p", "w", "d", " ", " ", " ", " ", " ", " ", " ", " ", " ", " ", "-", " ",
      "P", "r", "i", "n", "t", " ", "w", "o", "r", "k", "i", "n", "g", " ", "d", "i", "r",
      "e", "c", "t", "o", "r", "y", "\n">>
Help4 ==
    <<" ", " ", "e", "c", "h", "o", " ", "[", "t", "e", "x", "t", "]", " ", " ", "-", " ",
      "E", "c", "h", "o", " ", "t", "e", "x", "t", "\n">>
Help5 ==
    <<" ", " ", "g", "i", "t", " ", "s", "t", "a", "t", "u", "s", " ", " ", " ", "-", " ",
      "S", "h", "o", "w", " ", "g", "i", "t", " ", "s", "t", "a", "t", "u", "s", "\n">>
Help6 ==
    <<" ", " ", "c", "l", "e", "a", "r", " ", " ", " ", " ", " ", " ", " ", " ", "-", " ",
      "C", "l", "e", "a", "r", " ", "s", "c", "r", "e", "e", "n", "\n">>
Help7 ==
    <<" ", " ", "h", "e", "l", "p", " ", " ", " ", " ", " ", " ", " ", " ", " ", "-", " ",
      "S", "h", "o", "w", " ", "t", "h", "i", "s", " ", "h", "e", "l", "p", "\n">>
NotFoundHead ==
    <<ESC, "[", "3", "1", "m", "z", "s", "h", ":", " ", "c", "o", "m", "m", "a", "n", "d",
      " ", "n", "o", "t", " ", "f", "o", "u", "n", "d", ":", " ">>
NotFoundTail ==
    <<ESC, "[", "0", "m", "\n">>
EchoPrefix ==
    <<"e", "c", "h", "o", " ">>
GitStatusCommand ==
    <<"g", "i", "t", " ", "s", "t", "a", "t", "u", "s">>

\* Map.set and Map.delete on a Map kept as a function.
MapSet(m, k, v) == [x \in DOMAIN m \cup {k} |-> IF x = k THEN v ELSE m[x]]

MapDelete(m, k) == [x \in DOMAIN m \ {k} |-> m[x]]

\* s.split('/').pop()
LastSegment(str) ==
    LET slashes == {i \in 1..Len(str) : str[i] = "/"}
    IN  IF slashes = {} THEN str
        ELSE SubSeq(str, (CHOOSE i \in slashes : \A j \in slashes : j <= i) + 1, Len(str))

\* The code points String.prototype.trim removes: WhiteSpace (TAB, VT, FF, SP,
\* NBSP, ZWNBSP and the space separators) and LineTerminator (LF, CR, LS, PS).
\* A code point that has no escape here is a string that names it.
VT == "U+000B"
NBSP == "U+00A0"
ZWNBSP == "U+FEFF"
SpaceSeparators ==
    {"U+1680", "U+2000", "U+2001", "U+2002", "U+2003", "U+2004", "U+2005", "U+2006",
     "U+2007", "U+2008", "U+2009", "U+200A", "U+202F", "U+205F", "U+3000"}
LineTerminators == {"\n", "\r", "U+2028", "U+2029"}

Whitespace ==
    {"\t", VT, "\f", " ", NBSP, ZWNBSP} \cup SpaceSeparators \cup LineTerminators

\* String.prototype.trim
RECURSIVE Trim(_)
Trim(str) ==
    IF str = <<>> THEN str
    ELSE IF Head(str) \in Whitespace THEN Trim(Tail(str))
    ELSE IF str[Len(str)] \in Whitespace THEN Trim(SubSeq(str, 1, Len(str) - 1))
    ELSE str

StartsWith(str, prefix) ==
    Len(str) >= Len(prefix) /\ SubSeq(str, 1, Len(prefix)) = prefix

\* The prompt createSession and handleCommand print.
Prompt(cwd) == PromptHead \o LastSegment(cwd) \o PromptTail

setEventEmitter(s, emitter) == [s EXCEPT !.backend.eventEmitter = emitter]

\* emitEvent: through the one emitter the backend holds, if any.
emitEvent(s, event, t) ==
    LET e == s.backend.eventEmitter
    IN  IF e # NoEmitter
        THEN Emit([s EXCEPT !.backend.emitted =
                        Append(@, [emitter |-> e, type |-> event.type,
                                   payload |-> event.payload])],
                  e, event, t)
        ELSE s

sendData(s, sessionId, data, t) ==
    emitEvent(s, [type |-> "terminal:data",
                  payload |-> [present |-> TRUE, sessionId |-> sessionId,
                               data |-> data, exitCode |-> 0]], t)

RECURSIVE sendAll(_, _, _, _)
sendAll(s, sessionId, chunks, t) ==
    IF chunks = <<>> THEN s
    ELSE sendAll(sendData(s, sessionId, Head(chunks), t), sessionId, Tail(chunks), t)

\* options?.command
OptCommand(options) ==
    IF "command" \in DOMAIN options THEN options.command ELSE UNDEFINED

MockSessionId(n) == MockSessionPrefix \o NumberToString(n)

\* Faulty variant: the id is numbered by the sessions alive, not by a counter
\* of its own.
createSession_countsLive(s, options, t) ==
    LET n == Cardinality(DOMAIN s.backend.sessions) + 1
        sessionId == MockSessionId(n)
        cwd == OrElse(options.cwd, DefaultMockCwd)
        s1 == [s EXCEPT !.backend.sessionCounter = n,
                        !.backend.sessions = MapSet(@, sessionId, [cwd |-> cwd, shell |-> "zsh"])]
        s2 == emitEvent(s1, [type |-> "terminal:created",
                             payload |-> [present |-> TRUE, sessionId |-> sessionId,
                                          data |-> <<>>, exitCode |-> 0]], t)
        s3 == SetTimeout(s2, t, WelcomeDelay,
                         [kind |-> "welcome", panel |-> 0, sessionId |-> sessionId,
                          command |-> <<>>, cwd |-> cwd])
    IN  IF Truthy(OptCommand(options))
        THEN SetTimeout(s3, t, InitialCommandDelay,
                        [kind |-> "initialCommand", panel |-> 0, sessionId |-> sessionId,
                         command |-> options.command, cwd |-> cwd])
        ELSE s3

createSession(s, options, t) ==
    LET n == s.backend.sessionCounter + 1
        sessionId == MockSessionId(n)
        cwd == OrElse(options.cwd, DefaultMockCwd)
        s1 == [s EXCEPT !.backend.sessionCounter = n,
                        !.backend.sessions = MapSet(@, sessionId, [cwd |-> cwd, shell |-> "zsh"])]
        s2 == emitEvent(s1, [type |-> "terminal:created",
                             payload |-> [present |-> TRUE, sessionId |-> sessionId,
                                          data |-> <<>>, exitCode |-> 0]], t)
        s3 == SetTimeout(s2, t, WelcomeDelay,
                         [kind |-> "welcome", panel |-> 0, sessionId |-> sessionId,
                          command |-> <<>>, cwd |-> cwd])
    IN  IF Truthy(OptCommand(options))
        THEN SetTimeout(s3, t, InitialCommandDelay,
                        [kind |-> "initialCommand", panel |-> 0, sessionId |-> sessionId,
                         command |-> options.command, cwd |-> cwd])
        ELSE s3

\* The welcome timer of createSession.
WelcomeCallback(s, task, t) == sendData(s, task.sessionId, Prompt(task.cwd), t)

destroySession(s, sessionId, t) ==
    emitEvent([s EXCEPT !.backend.sessions = MapDelete(@, sessionId)],
              [type |-> "terminal:exit",
               payload |-> [present |-> TRUE, sessionId |-> sessionId,
                            data |-> <<>>, exitCode |-> 0]], t)

\* handleCommand up to its setTimeout; the callback keeps the session object.
handleCommand(s, sessionId, command, t) ==
    IF sessionId \notin DOMAIN s.backend.sessions THEN s
    ELSE SetTimeout(s, t, CommandDelay,
                    [kind |-> "command", panel |-> 0, sessionId |-> sessionId,
                     command |-> Trim(command),
                     cwd |-> s.backend.sessions[sessionId].cwd])

\* The output of the command timer, before the prompt.
CommandOutput(cmd, cwd) ==
    IF cmd = <<"l", "s">> THEN <<LsOutput>>
    ELSE IF cmd = <<"p", "w", "d">> THEN <<cwd \o <<"\n">> >>
    ELSE IF StartsWith(cmd, EchoPrefix)
         THEN << SubSeq(cmd, Len(EchoPrefix) + 1, Len(cmd)) \o <<"\n">> >>
    ELSE IF cmd = GitStatusCommand THEN <<GitStatus1, GitStatus2, GitStatus3, GitStatus4>>
    ELSE IF cmd = <<"c", "l", "e", "a", "r">> THEN <<ClearScreenHome>>
    ELSE IF cmd = <<"h", "e", "l", "p">>
         THEN <<Help1, Help2, Help3, Help4, Help5, Help6, Help7>>
    ELSE IF cmd # <<>> THEN <<NotFoundHead \o cmd \o NotFoundTail>>
    ELSE <<>>

\* Faulty variant: the prompt is printed before the output.
CommandCallback_promptFirst(s, task, t) ==
    sendAll(s, task.sessionId,
            <<Prompt(task.cwd)>> \o CommandOutput(task.command, task.cwd), t)

\* The timer of handleCommand: the output, then the prompt.
CommandCallback(s, task, t) ==
    sendAll(s, task.sessionId,
            Append(CommandOutput(task.command, task.cwd), Prompt(task.cwd)), t)

\* Faulty variant: the input is echoed whether or not the session exists.
writeToTerminal_noSessionTest(s, sessionId, data, t) ==
    LET s1 == sendData(s, sessionId, data, t)
    IN  IF data = <<"\r">>
        THEN handleCommand(sendData(s1, sessionId, <<"\n">>, t), sessionId, <<>>, t)
        ELSE s1

\* writeToTerminal: echo, and on Enter a newline and handleCommand(sessionId, '').
writeToTerminal(s, sessionId, data, t) ==
    IF sessionId \notin DOMAIN s.backend.sessions THEN s
    ELSE LET s1 == sendData(s, sessionId, data, t)
         IN  IF data = <<"\r">>
             THEN handleCommand(sendData(s1, sessionId, <<"\n">>, t), sessionId, <<>>, t)
             ELSE s1

\* ------------------------------------------------------- inputs of the model
SessionIds == {<<"s", "1">>, <<"s", "2">>}
ResolvedIds == {<<"s", "1">>, <<>>}
Chunks == {<<"x">>, CursorHome, <<ESC, "[", "2", "H">>}
Keys == {<<"x">>, <<"\r">>}
ExitCodes == {0, 137}
Rejections ==
    {[kind |-> "Error", message |-> SpawnFailedMessage, text |-> <<>>, number |-> 0],
     [kind |-> "Error", message |-> <<>>, text |-> <<>>, number |-> 0],
     [kind |-> "string", message |-> <<>>, text |-> <<"b", "o", "o", "m">>, number |-> 0],
     [kind |-> "number", message |-> <<>>, text |-> <<>>, number |-> 42],
     [kind |-> "undefined", message |-> <<>>, text |-> <<>>, number |-> 0]}
Paths == {<<>>, <<"/", "r">>, <<"/", "w">>}
Scopes == {"undefined", "repository", "workspace", "other"}
Absent == [present |-> FALSE, path |-> <<>>]
Present(path) == [present |-> TRUE, path |-> path]
Contexts ==
    {[repository |-> r, workspace |-> w, terminal |-> NoSlice] :
        r \in {Absent, Present(<<>>), Present(<<"/", "r">>)},
        w \in {Absent, Present(<<"/", "w">>)}}
AllActions ==
    [createTerminalSession |-> TRUE, destroyTerminalSession |-> TRUE,
     writeToTerminal |-> TRUE, resizeTerminal |-> TRUE]
ActionSets ==
    {AllActions,
     [AllActions EXCEPT !.createTerminalSession = FALSE],
     [AllActions EXCEPT !.destroyTerminalSession = FALSE],
     [AllActions EXCEPT !.writeToTerminal = FALSE],
     [AllActions EXCEPT !.resizeTerminal = FALSE]}
\* Every context and scope under the full set of actions, and every set of
\* actions under the stories' repository context.
RepositoryContext ==
    [repository |-> Present(<<"/", "r">>), workspace |-> Absent, terminal |-> NoSlice]
\* Values of the 'terminal' slice.
ListSlice(sessions) == [present |-> TRUE, hasData |-> TRUE, data |-> sessions]
Session(id, cwd) == [id |-> id, cwd |-> cwd]
Slices ==
    {[present |-> TRUE, hasData |-> FALSE, data |-> <<>>],
     ListSlice(<<>>),
     ListSlice(<<Session(<<"s", "2">>, <<"/", "w">>)>>),
     ListSlice(<<Session(<<"s", "1">>, <<>>)>>),
     ListSlice(<<Session(<<"s", "2">>, <<"/", "w">>), Session(<<"s", "1">>, <<"/", "r">>),
                 Session(<<"s", "1">>, <<"/", "w">>)>>)}
Configs ==
    {[context |-> c, terminalScope |-> sc, actions |-> AllActions] :
        c \in Contexts, sc \in Scopes}
    \cup {[context |-> RepositoryContext, terminalScope |-> "undefined", actions |-> a] :
            a \in ActionSets}
    \cup {[context |-> [RepositoryContext EXCEPT !.terminal = sl],
            terminalScope |-> "undefined", actions |-> AllActions] : sl \in Slices}
\* A host that passes createMockContext's context and no terminalScope, with
\* each set of actions.
BasicConfigs ==
    {[context |-> RepositoryContext, terminalScope |-> "undefined", actions |-> a] :
        a \in ActionSets}
\* The props a later render may bring.
ChangedProps ==
    {[context |-> [repository |-> Present(<<"/", "w">>), workspace |-> Present(<<"/", "w">>),
                   terminal |-> ListSlice(<<Session(<<"s", "1">>, <<"/", "w">>)>>)],
      terminalScope |-> "workspace"],
     [context |-> [repository |-> Absent, workspace |-> Absent, terminal |-> NoSlice],
      terminalScope |-> "repository"]}
DataPayloads ==
    {[present |-> FALSE, sessionId |-> <<>>, data |-> <<>>]}
    \cup {[present |-> TRUE, sessionId |-> sid, data |-> d] :
            sid \in SessionIds, d \in Chunks}
ExitPayloads ==
    {[present |-> FALSE, sessionId |-> <<>>, exitCode |-> 0]}
    \cup {[present |-> TRUE, sessionId |-> sid, exitCode |-> c] :
            sid \in SessionIds, c \in ExitCodes}

\* The 'terminal' slice of createMockContext: mockTerminalSessions.
MockTerminalSlice ==
    ListSlice(<<Session(<<"t", "e", "r", "m", "-", "1">>, DefaultMockCwd)>>)

NoCalls ==
    [createTerminalSession |-> <<>>, destroyTerminalSession |-> <<>>,
     writeToTerminal |-> <<>>, resizeTerminal |-> <<>>]
NoWidget == [written |-> <<>>, onData |-> <<>>, onResize |-> <<>>, headerTitle |-> NULL]
NoBackend == [sessions |-> <<>>, sessionCounter |-> 0, eventEmitter |-> 0, emitted |-> <<>>]
\* A fresh createMockEvents(): an empty Map.  received[h][type] counts the
\* events of a type probe h was called with; live and due are what the
\* history of on/off/unsubscribe/emit calls says: the (type, probe) pairs now
\* subscribed and the calls each probe is owed; returned holds the unsubscribe
\* functions handed out so far.
Probes == {1, 2}
ProbeTypes == {"terminal:data", "terminal:exit"}
NoMockEvents ==
    [handlers |-> <<>>, received |-> [h \in Probes |-> [ty \in ProbeTypes |-> 0]],
     live |-> {}, due |-> [h \in Probes |-> [ty \in ProbeTypes |-> 0]],
     returned |-> {}, ops |-> 0]
NoHeard ==
    [mounts |-> <<>>, rejections |-> <<>>, data |-> <<>>, due |-> <<>>, otherData |-> 0,
     exits |-> <<>>, missedExits |-> <<>>, otherExits |-> 0, lateExits |-> 0,
     emitterChanged |-> FALSE,
     lastDataAt |-> 0, subscribedAt |-> 0, dropped |-> 0, early |-> {},
     late |-> NULL, afterError |-> 0, created |-> <<>>]

\* What the claims call "an event for the panel's session": emitted on the
\* emitter the panel was given, for the id the panel holds.
ForPanel(p, e, payload) ==
    /\ panel[p].phase = "mounted"
    /\ Truthy(panel[p].sessionId)
    /\ props[p].events = e
    /\ payload.present
    /\ payload.sessionId = panel[p].sessionId

\* An event for the session of the subscription the panel holds at this moment,
\* emitted on the emitter of that subscription.
ForSubscription(p, e, payload) ==
    /\ panel[p].sub.live
    /\ panel[p].sub.events = e
    /\ payload.present
    /\ payload.sessionId = panel[p].sub.sessionId

\* The history of terminal:data events, for each panel:
\*   due        the data of the events for the panel's session that arrived
\*              while the widget was shown;
\*   data       the data of the events for the panel's subscription that
\*              arrived while the widget was shown;
\*   dropped    the number of events for the panel's session that arrived
\*              while the panel had no subscription for them or no widget;
\*   early      the session ids of the events that arrived on the panel's
\*              emitter while createTerminalSession was pending;
\*   afterError the number of events for the panel's session that arrived
\*              while error was not null;
\*   otherData  the number of events that were neither for the panel's session
\*              nor for its subscription and arrived while the widget was shown.
\* late is the id the promise resolved with if it resolved after the unmount,
\* created the ids createSession returned to a direct caller of the backend.
HearData(e, payload) ==
    heard' = [p \in Panels |->
                LET mine == ForPanel(p, e, payload)
                    heardBySub == ForSubscription(p, e, payload)
                    shown == panel[p].terminalRef
                IN  [heard[p] EXCEPT
                       !.due = IF mine /\ shown THEN Append(@, payload.data) ELSE @,
                       !.data = IF heardBySub /\ shown
                                THEN Append(@, payload.data) ELSE @,
                       !.emitterChanged = IF heardBySub /\ shown THEN FALSE ELSE @,
                       !.lastDataAt = IF heardBySub /\ shown THEN now ELSE @,
                       !.dropped = IF mine /\ ~(heardBySub /\ shown) THEN @ + 1 ELSE @,
                       !.early = IF panel[p].phase = "mounted" /\ panel[p].pending
                                    /\ props[p].events = e /\ payload.present
                                 THEN @ \cup {payload.sessionId} ELSE @,
                       !.afterError = IF (mine \/ heardBySub) /\ Truthy(panel[p].error)
                                      THEN @ + 1 ELSE @,
                       !.otherData = IF ~mine /\ ~heardBySub /\ shown
                                     THEN @ + 1 ELSE @]]

\* The history of terminal:exit events: exits holds the exit codes of the
\* events for the panel's subscription that arrived while the panel was mounted,
\* missedExits those of the events for the panel's session that arrived while
\* the panel had no subscription for them, otherExits counts the other events
\* that arrived while the panel was mounted, lateExits the events for the
\* panel's subscription that arrived between the commit of the unmount and the
\* cleanup of the subscription.
HearExit(e, payload) ==
    heard' = [p \in Panels |->
                IF ForSubscription(p, e, payload) /\ panel[p].phase = "mounted"
                THEN [heard[p] EXCEPT !.exits = Append(@, payload.exitCode)]
                ELSE IF ForPanel(p, e, payload)
                THEN [heard[p] EXCEPT !.missedExits = Append(@, payload.exitCode)]
                ELSE IF panel[p].phase = "mounted"
                THEN [heard[p] EXCEPT !.otherExits = @ + 1]
                ELSE IF ForSubscription(p, e, payload)
                THEN [heard[p] EXCEPT !.lateExits = @ + 1]
                ELSE heard[p]]

HearMount(p) ==
    heard' = [heard EXCEPT ![p].mounts =
                 Append(@, [context |-> props[p].context,
                            terminalScope |-> props[p].terminalScope])]

\* ------------------------------------------------- the panel under any host
Init ==
    /\ now = 0
    /\ \E cfg \in Configs :
          /\ used = IF cfg \in BasicConfigs THEN 0 ELSE MaxEvents - HostEvents
          /\ props = [p \in Panels |->
                        [context |-> cfg.context, terminalScope |-> cfg.terminalScope,
                         actions |-> cfg.actions, events |-> 1]]
    /\ panel = [p \in Panels |-> FreshPanel]
    /\ widget = [p \in Panels |-> NoWidget]
    /\ calls = [p \in Panels |-> NoCalls]
    /\ handlers = NoHandlers
    /\ timers = <<>>
    /\ nextTimerId = 1
    /\ backend = NoBackend
    /\ heard = [p \in Panels |-> NoHeard]
    /\ mockEvents = NoMockEvents

Spend == used < MaxEvents /\ used' = used + 1

\* The framework mounts the panel: the first render is committed.
Mount ==
    /\ panel[1].phase = "unmounted"
    /\ Becomes(MountPanel(State, 1))
    /\ HearMount(1)
    /\ UNCHANGED <<now, used>>

\* The framework runs the passive effects the last commit left; after the
\* commit of an unmount these are the cleanups.
Effects ==
    /\ panel[1].effects # "none"
    /\ Becomes(RunEffects(State, 1, now))
    /\ heard' = [heard EXCEPT ![1].subscribedAt =
                    IF panel[1].subDeps # SubscriptionDeps(panel[1], props[1])
                    THEN Len(widget[1].written) ELSE @]
    /\ UNCHANGED <<now, used>>

\* The framework renders the panel after a state update.  The effects of the
\* commit before are run before the next render begins.
Rendering ==
    /\ NeedsRender(panel[1])
    /\ panel[1].effects = "none"
    /\ Becomes(Render(State, 1))
    /\ UNCHANGED <<now, used, heard>>

\* The host's createTerminalSession promise resolves with id.
Resolve(id) ==
    /\ panel[1].pending
    /\ Becomes(InitTerminalResolved(State, 1, id))
    /\ heard' = [heard EXCEPT ![1].late = IF panel[1].phase = "removed" THEN id ELSE @]
    /\ UNCHANGED <<now, used>>

\* The promise rejects with err.
Reject(err) ==
    /\ panel[1].pending
    /\ Becomes(InitTerminalRejected(State, 1, err))
    /\ heard' = [heard EXCEPT ![1].rejections = Append(@, err)]
    /\ UNCHANGED <<now, used>>

\* The host emits terminal:data on emitter e.
EmitData(e, payload) ==
    /\ Spend
    /\ now + AutoScrollDelay <= MaxTime
    /\ Becomes(Emit(State, e, [type |-> "terminal:data", payload |-> payload], now))
    /\ HearData(e, payload)
    /\ UNCHANGED now

\* The host emits terminal:exit on emitter e.
EmitExit(e, payload) ==
    /\ Spend
    /\ Becomes(Emit(State, e, [type |-> "terminal:exit", payload |-> payload], now))
    /\ HearExit(e, payload)
    /\ UNCHANGED now

\* The timer is armed before the handler reads Date.now() for lastWriteTime, and
\* the timer's clock is not the clock Date.now() reads: when the timer expires
\* after its delay, Date.now() may be one millisecond short of lastWriteTime
\* plus the delay.
ClockSkews == {0, 1}

\* The auto-scroll timer of a panel expires; its callback reads Date.now().
AutoScrollTimer(i, skew) ==
    /\ IsNextTimer(i)
    /\ timers[i].kind = "autoScroll"
    /\ Becomes(AutoScrollCallback([State EXCEPT !.timers = RemoveAt(@, i)],
                                  timers[i].panel, now - skew))
    /\ UNCHANGED <<now, used, heard>>

\* The user types into the widget.
UserInput(data) ==
    /\ Spend
    /\ panel[1].terminalRef
    /\ Becomes(WidgetInput(State, 1, data))
    /\ UNCHANGED <<now, heard>>

\* The widget is resized.
Resize(cols, rows) ==
    /\ Spend
    /\ panel[1].terminalRef
    /\ Becomes(WidgetResize(State, 1, cols, rows))
    /\ UNCHANGED <<now, heard>>

\* The host passes another context or terminalScope: the panel is rendered with
\* the new props.
ContextChange(np) ==
    /\ Spend
    /\ panel[1].phase = "mounted"
    /\ panel[1].effects = "none"
    /\ np # [context |-> props[1].context, terminalScope |-> props[1].terminalScope]
    /\ Becomes(Render([State EXCEPT !.props[1].context = np.context,
                                    !.props[1].terminalScope = np.terminalScope], 1))
    /\ UNCHANGED <<now, heard>>

\* The host passes another event emitter: the panel is rendered with it; the
\* subscription moves when the effects of this commit run.
EventsChange(e) ==
    /\ Spend
    /\ panel[1].phase = "mounted"
    /\ panel[1].effects = "none"
    /\ e # props[1].events
    /\ Becomes(Render([State EXCEPT !.props[1].events = e], 1))
    /\ heard' = [heard EXCEPT ![1].emitterChanged = TRUE]
    /\ UNCHANGED now

\* The host removes the panel: the framework commits the unmount.  The cleanups
\* run in Effects, at once or after other tasks of the event loop.
Unmount ==
    /\ panel[1].phase = "mounted"
    /\ panel[1].effects = "none"
    /\ Becomes(UnmountPanel(State, 1))
    /\ UNCHANGED <<now, used, heard>>

\* Time passes, never beyond the deadline of a pending timer.  The program reads
\* the clock only to arm and to run timers, so time is let pass only while one
\* is pending.
Tick(d) ==
    /\ now + d <= MaxTime
    /\ timers # <<>>
    /\ \A p \in Panels : panel[p].phase # "rendered" /\ Idle(panel[p])
    /\ \A i \in DOMAIN timers : now + d <= timers[i].due
    /\ now' = now + d
    /\ UNCHANGED <<used, props, panel, widget, calls, handlers, timers, nextTimerId,
                   backend, heard, mockEvents>>

TimeSteps == {50, 100}

Next ==
    \/ Mount
    \/ Effects
    \/ Rendering
    \/ \E id \in ResolvedIds : Resolve(id)
    \/ \E err \in Rejections : Reject(err)
    \/ \E e \in Emitters, payload \in DataPayloads : EmitData(e, payload)
    \/ \E e \in Emitters, payload \in ExitPayloads : EmitExit(e, payload)
    \/ \E i \in DOMAIN timers, skew \in ClockSkews : AutoScrollTimer(i, skew)
    \/ \E data \in Keys : UserInput(data)
    \/ \E cols \in {80}, rows \in {24} : Resize(cols, rows)
    \/ \E np \in ChangedProps : ContextChange(np)
    \/ \E e \in Emitters : EventsChange(e)
    \/ Unmount
    \/ \E d \in TimeSteps : Tick(d)

Spec == Init /\ [][Next]_vars

\* ------------------------------------------------ the MultiplePanels story
\* Two MockPanelProviders, each with its own createMockEvents() emitter and
\* createTerminalMockActions(), around the one global mockBackend.
StoryProps(p) ==
    [context |-> [repository |-> Present(IF p = 1 THEN Project1Path ELSE Project2Path),
                  workspace |-> Absent, terminal |-> MockTerminalSlice],
     terminalScope |-> "undefined", actions |-> AllActions, events |-> p]

StoryInit ==
    /\ now = 0
    /\ used = 0
    /\ props = [p \in Panels |-> StoryProps(p)]
    /\ panel = [p \in Panels |-> FreshPanel]
    /\ widget = [p \in Panels |-> NoWidget]
    /\ calls = [p \in Panels |-> NoCalls]
    /\ handlers = NoHandlers
    /\ timers = <<>>
    /\ nextTimerId = 1
    /\ backend = NoBackend
    /\ heard = [p \in Panels |-> NoHeard]
    /\ mockEvents = NoMockEvents

\* The mock createTerminalSession runs mockBackend.createSession(options) within
\* the call and returns a promise that is already resolved with the id; the
\* continuation of initTerminal's await runs later.
MockCreateTerminalSession(s, p, t) ==
    LET made == s.calls[p].createTerminalSession
        s1 == createSession(s, made[Len(made)], t)
    IN  [s1 EXCEPT !.panel[p].promised = MockSessionId(s1.backend.sessionCounter)]

\* The mock destroyTerminalSession runs mockBackend.destroySession(sessionId)
\* within the call: n calls had been made before the cleanups ran.  The call is
\* made by the first cleanup, while the handlers of the removed panel are still
\* registered; they change nothing (the ref is null, setError is ignored), so
\* the terminal:exit is emitted here after both cleanups.
MockDestroyTerminalSession(s, p, n, t) ==
    LET made == s.calls[p].destroyTerminalSession
    IN  IF Len(made) > n THEN destroySession(s, made[Len(made)], t) ELSE s

\* The continuation of a panel's await is waiting to run.
Resuming(pn) == pn.pending /\ pn.promised # NULL

\* The continuation of the await in initTerminal, with the id the mock returned.
ResumeInitTerminal(s, p) ==
    [InitTerminalResolved(s, p, s.panel[p].promised) EXCEPT !.panel[p].promised = NULL]

\* The render prop of a provider: mockBackend.setEventEmitter(props.events).
\* React renders the tree in order, and runs effects after the whole render.
RenderProvider(p) ==
    /\ panel[p].phase = "unmounted"
    /\ \A q \in Panels : q < p => panel[q].phase # "unmounted"
    /\ Becomes([setEventEmitter(State, props[p].events)
                   EXCEPT !.panel[p].phase = "rendered"])
    /\ UNCHANGED <<now, used, heard>>

\* The first render of a panel of the story is committed.
StoryMount(p) ==
    /\ panel[p].phase = "rendered"
    /\ \A q \in Panels : panel[q].phase # "unmounted"
    /\ \A q \in Panels : q < p => panel[q].phase # "rendered"
    /\ Becomes(MountPanel(State, p))
    /\ HearMount(p)
    /\ UNCHANGED <<now, used>>

\* The passive effects of a panel of the story, in the order of the tree, after
\* the commit of all panels.  The mount effect calls the mock action, which
\* creates the session before it returns.
StoryEffects(p) ==
    /\ panel[p].effects # "none"
    /\ \A q \in Panels : panel[q].phase \notin {"unmounted", "rendered"}
    /\ \A q \in Panels : ~NeedsRender(panel[q])
    /\ \A q \in Panels : q < p => panel[q].effects = "none"
    /\ panel[p].effects = "mount" => now + WelcomeDelay <= MaxTime
    /\ LET s1 == RunEffects(State, p, now)
           s2 == IF Len(s1.calls[p].createTerminalSession)
                      > Len(calls[p].createTerminalSession)
                 THEN MockCreateTerminalSession(s1, p, now)
                 ELSE s1
       IN  Becomes(MockDestroyTerminalSession(s2, p, Len(calls[p].destroyTerminalSession),
                                              now))
    /\ UNCHANGED <<now, used, heard>>

\* The continuations of the awaits run once the effects have returned, in the
\* order of the calls.
StoryResolve(p) ==
    /\ Resuming(panel[p])
    /\ \A q \in Panels : panel[q].effects = "none"
    /\ \A q \in Panels : q < p => ~Resuming(panel[q])
    /\ Becomes(ResumeInitTerminal(State, p))
    /\ UNCHANGED <<now, used, heard>>

\* The panels whose state was updated are rendered, in the order of the tree.
StoryRendering(p) ==
    /\ NeedsRender(panel[p])
    /\ panel[p].effects = "none"
    /\ \A q \in Panels : ~Resuming(panel[q])
    /\ \A q \in Panels : q < p => ~NeedsRender(panel[q])
    /\ Becomes(Render(State, p))
    /\ UNCHANGED <<now, used, heard>>

\* Both panels are mounted in the same commit, before anything else happens.
StoryMounted == \A q \in Panels : panel[q].phase \notin {"unmounted", "rendered"}

\* The user types into the widget of panel p, once the page has come to rest;
\* the mock writeToTerminal action hands the call to the backend.
StoryInput(p, data) ==
    /\ Spend
    /\ StoryMounted
    /\ \A q \in Panels : Idle(panel[q])
    /\ panel[p].terminalRef
    /\ now + CommandDelay <= MaxTime
    /\ LET s1 == WidgetInput(State, p, data)
           made == s1.calls[p].writeToTerminal
       IN  Becomes(IF Len(made) > Len(calls[p].writeToTerminal)
                   THEN writeToTerminal(s1, made[Len(made)].sessionId,
                                        made[Len(made)].data, now)
                   ELSE s1)
    /\ UNCHANGED <<now, heard>>

\* The story is left: one commit removes the tree, both panels with it.  The
\* cleanups, with the call of the mock destroyTerminalSession action, run in
\* StoryEffects, in the order of the tree.
StoryUnmount ==
    /\ Spend
    /\ \A q \in Panels : panel[q].phase = "mounted"
    /\ \A q \in Panels : Idle(panel[q])
    /\ Becomes([State EXCEPT
                  !.panel = [q \in Panels |-> UnmountPanel(State, q).panel[q]]])
    /\ UNCHANGED <<now, heard>>

WelcomeTimer(i) ==
    /\ IsNextTimer(i)
    /\ timers[i].kind = "welcome"
    /\ Becomes(WelcomeCallback([State EXCEPT !.timers = RemoveAt(@, i)], timers[i], now))
    /\ UNCHANGED <<now, used, heard>>

CommandTimer(i) ==
    /\ IsNextTimer(i)
    /\ timers[i].kind = "command"
    /\ Becomes(CommandCallback([State EXCEPT !.timers = RemoveAt(@, i)], timers[i], now))
    /\ UNCHANGED <<now, used, heard>>

StoryNext ==
    \/ \E p \in Panels : RenderProvider(p)
    \/ \E p \in Panels : StoryEffects(p)
    \/ \E p \in Panels : StoryResolve(p)
    \/ \E p \in Panels : StoryRendering(p)
    \/ \E p \in Panels : StoryMount(p)
    \/ \E p \in Panels, data \in Keys : StoryInput(p, data)
    \/ StoryUnmount
    \/ \E i \in DOMAIN timers : WelcomeTimer(i)
    \/ \E i \in DOMAIN timers : CommandTimer(i)
    \/ \E d \in TimeSteps : Tick(d)

StorySpec == StoryInit /\ [][StoryNext]_vars

\* ------------------------------- the Default and WithInitialCommand stories
\* One MockPanelProvider around one TerminalPanel and the global mockBackend.
\* WithInitialCommand overrides createTerminalSession to add a command to the
\* options; the model lets that command vary, UNDEFINED being the Default story.
DemoMaxTime == 350

LsCommand == <<"l", "s">>
ClearCommand == <<"c", "l", "e", "a", "r">>
PaddedPwdCommand == <<"\f", " ", "p", "w", "d", NBSP, VT>>

DemoCommands == {UNDEFINED, GitStatusCommand, LsCommand, ClearCommand, PaddedPwdCommand}

\* What the user of a story types.
StoryKeys == {<<"l">>, <<"s">>, <<"\r">>}

DemoProps(command) ==
    [context |-> [repository |-> Present(DefaultMockCwd), workspace |-> Absent,
                  terminal |-> MockTerminalSlice],
     terminalScope |-> "undefined", actions |-> AllActions, events |-> 1,
     command |-> command]

DemoInit ==
    /\ now = 0
    /\ used = 0
    /\ \E command \in DemoCommands : props = [p \in Panels |-> DemoProps(command)]
    /\ panel = [p \in Panels |-> FreshPanel]
    /\ widget = [p \in Panels |-> NoWidget]
    /\ calls = [p \in Panels |-> NoCalls]
    /\ handlers = NoHandlers
    /\ timers = <<>>
    /\ nextTimerId = 1
    /\ backend = NoBackend
    /\ heard = [p \in Panels |-> NoHeard]
    /\ mockEvents = NoMockEvents

\* createTerminalSession of the story: mockBackend.createSession(options), or
\* mockBackend.createSession({...options, command}) in WithInitialCommand.
DemoCreateTerminalSession(s, p, t) ==
    LET made == s.calls[p].createTerminalSession
        options == made[Len(made)]
        command == s.props[p].command
        s1 == createSession(s, IF command = UNDEFINED THEN options
                               ELSE [cwd |-> options.cwd, command |-> command], t)
    IN  [s1 EXCEPT !.panel[p].promised = MockSessionId(s1.backend.sessionCounter)]

\* The render prop of the provider, then the first render of the panel.
DemoRender ==
    /\ panel[1].phase = "unmounted"
    /\ Becomes([setEventEmitter(State, props[1].events)
                   EXCEPT !.panel[1].phase = "rendered"])
    /\ UNCHANGED <<now, used, heard>>

\* The first render of the panel is committed.
DemoMount ==
    /\ panel[1].phase = "rendered"
    /\ Becomes(MountPanel(State, 1))
    /\ HearMount(1)
    /\ UNCHANGED <<now, used>>

\* The passive effects of the panel; the mount effect calls the story's action,
\* which creates the session before it returns, and the cleanup of the unmount
\* the mock destroyTerminalSession action.
DemoEffects ==
    /\ panel[1].effects # "none"
    /\ LET s1 == RunEffects(State, 1, now)
           s2 == IF Len(s1.calls[1].createTerminalSession)
                      > Len(calls[1].createTerminalSession)
                 THEN DemoCreateTerminalSession(s1, 1, now)
                 ELSE s1
       IN  Becomes(MockDestroyTerminalSession(s2, 1, Len(calls[1].destroyTerminalSession),
                                              now))
    /\ UNCHANGED <<now, used, heard>>

\* The continuation of the await runs once the effects have returned.
DemoResolve ==
    /\ Resuming(panel[1])
    /\ panel[1].effects = "none"
    /\ Becomes(ResumeInitTerminal(State, 1))
    /\ UNCHANGED <<now, used, heard>>

\* The panel is rendered after the state update.
DemoRendering ==
    /\ NeedsRender(panel[1])
    /\ panel[1].effects = "none"
    /\ ~Resuming(panel[1])
    /\ Becomes(Render(State, 1))
    /\ UNCHANGED <<now, used, heard>>

\* The user types into the widget, once the page has come to rest.
DemoInput(data) ==
    /\ Spend
    /\ Idle(panel[1])
    /\ panel[1].terminalRef
    /\ now + CommandDelay <= DemoMaxTime
    /\ LET s1 == WidgetInput(State, 1, data)
           made == s1.calls[1].writeToTerminal
       IN  Becomes(IF Len(made) > Len(calls[1].writeToTerminal)
                   THEN writeToTerminal(s1, made[Len(made)].sessionId,
                                        made[Len(made)].data, now)
                   ELSE s1)
    /\ UNCHANGED <<now, heard>>

\* The story is left: the unmount is committed; the cleanups run in DemoEffects.
DemoUnmount ==
    /\ Spend
    /\ panel[1].phase = "mounted"
    /\ Idle(panel[1])
    /\ Becomes(UnmountPanel(State, 1))
    /\ UNCHANGED <<now, heard>>

\* The timer of createSession for the initial command.
InitialCommandCallback(s, task, t) == handleCommand(s, task.sessionId, task.command, t)

InitialCommandTimer(i) ==
    /\ IsNextTimer(i)
    /\ timers[i].kind = "initialCommand"
    /\ Becomes(InitialCommandCallback([State EXCEPT !.timers = RemoveAt(@, i)],
                                      timers[i], now))
    /\ UNCHANGED <<now, used, heard>>

DemoTick(d) ==
    /\ now + d <= DemoMaxTime
    /\ timers # <<>>
    /\ panel[1].phase # "rendered"
    /\ Idle(panel[1])
    /\ \A i \in DOMAIN timers : now + d <= timers[i].due
    /\ now' = now + d
    /\ UNCHANGED <<used, props, panel, widget, calls, handlers, timers, nextTimerId,
                   backend, heard, mockEvents>>

DemoNext ==
    \/ DemoRender
    \/ DemoMount
    \/ DemoEffects
    \/ DemoResolve
    \/ DemoRendering
    \/ \E data \in StoryKeys : DemoInput(data)
    \/ DemoUnmount
    \/ \E i \in DOMAIN timers : WelcomeTimer(i)
    \/ \E i \in DOMAIN timers : InitialCommandTimer(i)
    \/ \E i \in DOMAIN timers : CommandTimer(i)
    \/ \E i \in DOMAIN timers, skew \in ClockSkews : AutoScrollTimer(i, skew)
    \/ \E d \in TimeSteps : DemoTick(d)

DemoSpec == DemoInit /\ [][DemoNext]_vars

\* ---------------------------------------------- the mock emitter by itself
\* A test drives one createMockEvents() emitter with probe handlers.
MaxEmitterOps == 5

EmitterInit ==
    /\ now = 0
    /\ used = 0
    /\ props = [p \in Panels |-> StoryProps(p)]
    /\ panel = [p \in Panels |-> FreshPanel]
    /\ widget = [p \in Panels |-> NoWidget]
    /\ calls = [p \in Panels |-> NoCalls]
    /\ handlers = NoHandlers
    /\ timers = <<>>
    /\ nextTimerId = 1
    /\ backend = NoBackend
    /\ heard = [p \in Panels |-> NoHeard]
    /\ mockEvents = NoMockEvents

EmitterStep ==
    /\ mockEvents.ops < MaxEmitterOps
    /\ UNCHANGED <<now, used, props, panel, widget, calls, handlers, timers,
                   nextTimerId, backend, heard>>

\* events.on(type, h); the returned function is kept.
ProbeOn(type, h) ==
    /\ EmitterStep
    /\ mockEvents' = [mockEvents EXCEPT
                        !.handlers = on(@, type, h),
                        !.live = @ \cup {<<type, h>>},
                        !.returned = @ \cup {<<type, h>>},
                        !.ops = @ + 1]

\* events.off(type, h), for any type and handler.
ProbeOff(type, h) ==
    /\ EmitterStep
    /\ mockEvents' = [mockEvents EXCEPT
                        !.handlers = off(@, type, h),
                        !.live = @ \ {<<type, h>>},
                        !.ops = @ + 1]

\* A function that on() returned is called, for the first time or again.
ProbeUnsubscribe(type, h) ==
    /\ EmitterStep
    /\ <<type, h>> \in mockEvents.returned
    /\ mockEvents' = [mockEvents EXCEPT
                        !.handlers = unsubscribe(@, type, h),
                        !.live = @ \ {<<type, h>>},
                        !.ops = @ + 1]

\* events.emit({type}): each handler of the Set of the type is called once.
ProbeEmit(type) ==
    /\ EmitterStep
    /\ mockEvents' = [mockEvents EXCEPT
                        !.received = [h \in Probes |->
                                        IF h \in subscribed(mockEvents.handlers, type)
                                        THEN [@[h] EXCEPT ![type] = @ + 1] ELSE @[h]],
                        !.due = [h \in Probes |->
                                    IF <<type, h>> \in mockEvents.live
                                    THEN [@[h] EXCEPT ![type] = @ + 1] ELSE @[h]],
                        !.ops = @ + 1]

EmitterNext ==
    \/ \E type \in ProbeTypes, h \in Probes : ProbeOn(type, h)
    \/ \E type \in ProbeTypes, h \in Probes : ProbeOff(type, h)
    \/ \E type \in ProbeTypes, h \in Probes : ProbeUnsubscribe(type, h)
    \/ \E type \in ProbeTypes : ProbeEmit(type)

EmitterSpec == EmitterInit /\ [][EmitterNext]_vars

\* ---------------------------------------------- the mock backend by itself
\* A caller drives the global mockBackend through the mock actions
\* (createTerminalSession, destroyTerminalSession, writeToTerminal) in any
\* order and with any session id; no panel is mounted.  As in every story, the
\* provider's render prop has called setEventEmitter before the actions are
\* used, and may call it again with another emitter.
\* calls[1] is the log of the calls, backend.emitted the log of the events.
MaxBackendCalls == 4
BackendMaxTime == 250

BackendSessionIds == {MockSessionId(1), MockSessionId(2)}

BackendOptions ==
    {[cwd |-> UNDEFINED], [cwd |-> <<"/", "w">>, command |-> LsCommand]}

BackendInit ==
    /\ now = 0
    /\ used = 0
    /\ props = [p \in Panels |-> DemoProps(UNDEFINED)]
    /\ panel = [p \in Panels |-> FreshPanel]
    /\ widget = [p \in Panels |-> NoWidget]
    /\ calls = [p \in Panels |-> NoCalls]
    /\ handlers = NoHandlers
    /\ timers = <<>>
    /\ nextTimerId = 1
    /\ backend = NoBackend
    /\ heard = [p \in Panels |-> NoHeard]
    /\ mockEvents = NoMockEvents

BackendCall == used < MaxBackendCalls /\ used' = used + 1

\* The actions reach the backend only under a provider that was rendered.
ProviderRendered == backend.eventEmitter # NoEmitter

\* mockBackend.setEventEmitter(emitter), as a provider's render prop calls it.
SetEmitterCall(e) ==
    /\ BackendCall
    /\ Becomes(setEventEmitter(State, e))
    /\ UNCHANGED <<now, heard>>

\* createTerminalSession(options) of the mock actions: mockBackend.createSession.
CreateCall(options) ==
    /\ BackendCall
    /\ ProviderRendered
    /\ now + (IF Truthy(OptCommand(options))
              THEN InitialCommandDelay + CommandDelay ELSE WelcomeDelay) <= BackendMaxTime
    /\ LET s1 == createSession(State, options, now)
       IN  /\ Becomes([s1 EXCEPT !.calls[1].createTerminalSession = Append(@, options)])
           /\ heard' = [heard EXCEPT ![1].created =
                            Append(@, MockSessionId(s1.backend.sessionCounter))]
    /\ UNCHANGED now

\* destroyTerminalSession(sessionId) of the mock actions: mockBackend.destroySession.
DestroyCall(sessionId) ==
    /\ BackendCall
    /\ ProviderRendered
    /\ Becomes([destroySession(State, sessionId, now)
                   EXCEPT !.calls[1].destroyTerminalSession = Append(@, sessionId)])
    /\ UNCHANGED <<now, heard>>

\* writeToTerminal(sessionId, data) of the mock actions: mockBackend.writeToTerminal.
WriteCall(sessionId, data) ==
    /\ BackendCall
    /\ ProviderRendered
    /\ now + CommandDelay <= BackendMaxTime
    /\ Becomes([writeToTerminal(State, sessionId, data, now)
                   EXCEPT !.calls[1].writeToTerminal =
                              Append(@, [sessionId |-> sessionId, data |-> data])])
    /\ UNCHANGED <<now, heard>>

BackendTick(d) ==
    /\ now + d <= BackendMaxTime
    /\ timers # <<>>
    /\ \A i \in DOMAIN timers : now + d <= timers[i].due
    /\ now' = now + d
    /\ UNCHANGED <<used, props, panel, widget, calls, handlers, timers, nextTimerId,
                   backend, heard, mockEvents>>

BackendNext ==
    \/ \E e \in Emitters : SetEmitterCall(e)
    \/ \E options \in BackendOptions : CreateCall(options)
    \/ \E sessionId \in BackendSessionIds : DestroyCall(sessionId)
    \/ \E sessionId \in BackendSessionIds, data \in Keys : WriteCall(sessionId, data)
    \/ \E i \in DOMAIN timers : WelcomeTimer(i)
    \/ \E i \in DOMAIN timers : InitialCommandTimer(i)
    \/ \E i \in DOMAIN timers : CommandTimer(i)
    \/ \E d \in TimeSteps : BackendTick(d)

BackendSpec == BackendInit /\ [][BackendNext]_vars

\* ------------------------------------------------------------- the claims
\* The data the widget of panel p was given by the terminal:data handler.
RECURSIVE DataOf(_)
DataOf(written) ==
    IF written = <<>> THEN <<>>
    ELSE IF Head(written).by = "data" THEN <<Head(written).data>> \o DataOf(Tail(written))
    ELSE DataOf(Tail(written))

HandlersOf(p) ==
    {h \in UNION {handlers[e][ty] : e \in Emitters, ty \in EventTypes} : h.panel = p}

\* C1: a panel that was unmounted after its createTerminalSession call resolved
\* with session id S, under a host that provides destroyTerminalSession, has
\* called destroyTerminalSession(S) once the cleanups of the unmount have run.
C1_DestroyOnUnmount ==
    \A p \in Panels :
        (/\ panel[p].phase = "removed"
         /\ panel[p].effects = "none"
         /\ Truthy(panel[p].sessionId)
         /\ props[p].actions.destroyTerminalSession)
        => \E i \in DOMAIN calls[p].destroyTerminalSession :
              calls[p].destroyTerminalSession[i] = panel[p].sessionId

\* C2: a panel calls createTerminalSession exactly once, in the effects of its
\* mount, and a change of the context or of terminalScope adds no
\* createTerminalSession call and no destroyTerminalSession call.
C2_CreateOnce ==
    /\ [](\A p \in Panels :
            Len(calls[p].createTerminalSession) =
                IF panel[p].phase \in {"mounted", "removed"}
                   /\ panel[p].effects # "mount"
                   /\ props[p].actions.createTerminalSession
                THEN 1 ELSE 0)
    /\ [][\A p \in Panels :
            (\/ props'[p].context # props[p].context
             \/ props'[p].terminalScope # props[p].terminalScope)
            => /\ calls'[p].createTerminalSession = calls[p].createTerminalSession
               /\ calls'[p].destroyTerminalSession = calls[p].destroyTerminalSession]_vars

C2_Witness ==
    /\ panel[1].phase = "mounted"
    /\ Truthy(panel[1].sessionId)
    /\ heard[1].mounts # <<>>
    /\ props[1].context # heard[1].mounts[1].context
    /\ props[1].terminalScope # heard[1].mounts[1].terminalScope
    /\ Len(calls[1].createTerminalSession) = 1

\* C3 as stated: the data the widget was given by the data handler is exactly
\* the data of the terminal:data events for the panel's session that arrived
\* while the widget was mounted, in their order; no other event's data is
\* written.
C3_EveryDataWritten ==
    \A p \in Panels : DataOf(widget[p].written) = heard[p].due

\* C3 as amended: the same for the events that arrived on the emitter of the
\* panel's subscription, for the session of that subscription, while the
\* widget was mounted; an event that arrives before the subscription effect
\* has run is not written.
C3_DataWrittenInOrder ==
    \A p \in Panels : DataOf(widget[p].written) = heard[p].data

C3_Witness ==
    /\ Len(heard[1].data) = 2
    /\ heard[1].data[1] # heard[1].data[2]
    /\ heard[1].dropped >= 1
    /\ Len(heard[1].due) = 3
    /\ DataOf(widget[1].written) = heard[1].data

\* C4 as stated: a terminal:exit event for the panel's session sets the error
\* to 'Terminal process exited with code <exitCode>', and the panel shows the
\* error view from its next render on; a terminal:exit event for another
\* session leaves the panel's state unchanged.
ExpectedExitMessage(code) ==
    ExitMessagePrefix \o (IF code = 0 THEN <<"0">> ELSE <<"1", "3", "7">>)

\* The last element of a sequence that is not empty.
Last(seq) == seq[Len(seq)]

\* The panel has been rendered with the state it holds.
Rendered(p) == panel[p].phase = "mounted" /\ ~NeedsRender(panel[p])

C4_EveryExitSetsError ==
    /\ [][\A p \in Panels :
            /\ heard'[p].exits # heard[p].exits
               => panel'[p].error = ExpectedExitMessage(Last(heard'[p].exits))
            /\ heard'[p].missedExits # heard[p].missedExits
               => panel'[p].error = ExpectedExitMessage(Last(heard'[p].missedExits))
            /\ heard'[p].otherExits # heard[p].otherExits
               => panel'[p] = panel[p]]_vars
    /\ [](\A p \in Panels :
            (Rendered(p) /\ heard[p].exits \o heard[p].missedExits # <<>>)
            => panel[p].view = "error")

\* C4 as amended: the same for the terminal:exit events that arrive on the
\* emitter of the panel's subscription, for the session of that subscription,
\* while the panel is mounted; an event for the session that arrives before the
\* subscription effect has run, or after the panel was removed, changes
\* nothing, as an event for another session does.
C4_ExitSetsError ==
    /\ [][\A p \in Panels :
            /\ heard'[p].exits # heard[p].exits
               => panel'[p].error = ExpectedExitMessage(Last(heard'[p].exits))
            /\ (\/ heard'[p].otherExits # heard[p].otherExits
                \/ heard'[p].missedExits # heard[p].missedExits
                \/ heard'[p].lateExits # heard[p].lateExits)
               => panel'[p] = panel[p]]_vars
    /\ [](\A p \in Panels :
            (Rendered(p) /\ heard[p].exits # <<>>) => panel[p].view = "error")

C4_Witness ==
    /\ heard[1].exits = <<137>>
    /\ heard[1].otherExits >= 1
    /\ heard[1].missedExits # <<>>
    /\ panel[1].view = "error"
    /\ panel[1].error = ExpectedExitMessage(137)

\* C5 as stated: every input chunk and every resize the widget reports is
\* forwarded once, unchanged, with the panel's session id, and nothing else is.
ForwardedInput(p) ==
    calls[p].writeToTerminal =
        [i \in DOMAIN widget[p].onData |->
            [sessionId |-> panel[p].sessionId, data |-> widget[p].onData[i]]]

ForwardedResize(p) ==
    calls[p].resizeTerminal =
        [i \in DOMAIN widget[p].onResize |->
            [sessionId |-> panel[p].sessionId, cols |-> widget[p].onResize[i].cols,
             rows |-> widget[p].onResize[i].rows]]

C5_EveryInputForwarded ==
    \A p \in Panels : ForwardedInput(p) /\ ForwardedResize(p)

\* C5 as amended: the same, for each of writeToTerminal and resizeTerminal the
\* host provides; an action the host omits is never called.
C5_InputForwardedIfProvided ==
    \A p \in Panels :
        /\ IF props[p].actions.writeToTerminal
           THEN ForwardedInput(p) ELSE calls[p].writeToTerminal = <<>>
        /\ IF props[p].actions.resizeTerminal
           THEN ForwardedResize(p) ELSE calls[p].resizeTerminal = <<>>

C5_Witness ==
    /\ Len(widget[1].onData) = 2
    /\ widget[1].onData[1] # widget[1].onData[2]
    /\ Len(widget[1].onResize) = 1
    /\ Len(calls[1].writeToTerminal) = 2
    /\ Len(calls[1].resizeTerminal) = 1

\* C6: under a host without createTerminalSession the panel, once the effects
\* of its mount have run, is in the error state with the 'not available'
\* message, isInitializing is false and sessionId is null; it shows the error
\* view from its next render on, and it never has a handler on any emitter.
C6_NoCreateAction ==
    \A p \in Panels :
        (panel[p].phase = "mounted" /\ ~props[p].actions.createTerminalSession)
        => /\ panel[p].effects # "mount"
              => /\ panel[p].error = NoActionsMessage
                 /\ ~panel[p].isInitializing
                 /\ panel[p].sessionId = NULL
                 /\ Rendered(p) => panel[p].view = "error"
           /\ HandlersOf(p) = {}

C6_Witness ==
    /\ panel[1].phase = "mounted"
    /\ ~props[1].actions.createTerminalSession
    /\ panel[1].error = NoActionsMessage
    /\ panel[1].view = "error"
    /\ used = MaxEvents

\* C7: after the createTerminalSession promise rejected, the mounted panel has
\* the rejection's message as error (String(err) for a value that is no Error),
\* isInitializing false, sessionId null, one createTerminalSession call in all,
\* and no handler on any emitter.
ExpectedErrorText(err) ==
    CASE err.kind = "Error" -> err.message
      [] err.kind = "string" -> err.text
      [] err.kind = "number" -> <<"4", "2">>
      [] err.kind = "undefined" -> <<"u", "n", "d", "e", "f", "i", "n", "e", "d">>

C7_RejectedCreate ==
    \A p \in Panels :
        (panel[p].phase = "mounted" /\ heard[p].rejections # <<>>)
        => /\ panel[p].error = ExpectedErrorText(heard[p].rejections[1])
           /\ ~panel[p].isInitializing
           /\ panel[p].sessionId = NULL
           /\ Len(calls[p].createTerminalSession) = 1
           /\ HandlersOf(p) = {}

C7_Witness ==
    /\ panel[1].phase = "mounted"
    /\ heard[1].rejections # <<>>
    /\ heard[1].rejections[1].kind = "number"
    /\ panel[1].error = <<"4", "2">>
    /\ panel[1].view = "error"
    /\ used = MaxEvents

\* C9 as stated: the cwd of the createTerminalSession call is the directory of
\* the props at mount: the workspace path under scope 'workspace', otherwise the
\* repository path, or the workspace path when no repository is in scope; a
\* null directory is passed as undefined.
MountDirectory(m) ==
    IF m.terminalScope = "workspace"
    THEN (IF m.context.workspace.present THEN m.context.workspace.path ELSE NULL)
    ELSE IF m.context.repository.present THEN m.context.repository.path
    ELSE IF m.context.workspace.present THEN m.context.workspace.path
    ELSE NULL

C9_CwdIsDirectory ==
    \A p \in Panels :
        calls[p].createTerminalSession # <<>>
        => LET dir == MountDirectory(heard[p].mounts[1])
           IN  calls[p].createTerminalSession[1].cwd =
                   IF dir = NULL THEN UNDEFINED ELSE dir

\* C9 as amended: the same, and a directory that is null or the empty string is
\* passed as undefined.
C9_CwdIsDirectoryOrUndefined ==
    \A p \in Panels :
        calls[p].createTerminalSession # <<>>
        => LET dir == MountDirectory(heard[p].mounts[1])
           IN  calls[p].createTerminalSession[1].cwd =
                   IF dir = NULL \/ dir = <<>> THEN UNDEFINED ELSE dir

C9_Witness ==
    /\ calls[1].createTerminalSession # <<>>
    /\ heard[1].mounts[1].terminalScope = "workspace"
    /\ heard[1].mounts[1].context.repository.present
    /\ calls[1].createTerminalSession[1].cwd = <<"/", "w">>
    /\ props[1].terminalScope # "workspace"

\* ------------------------------------------- the panel under a fair event loop
\* One host configuration; the event loop lets time pass and runs due timers.
\* The number of events the host and the user produce in a fair behaviour:
LiveEvents == 2

LiveInit ==
    /\ now = 0
    /\ used = MaxEvents - LiveEvents
    /\ props = [p \in Panels |->
                  [context |-> RepositoryContext, terminalScope |-> "undefined",
                   actions |-> AllActions, events |-> 1]]
    /\ panel = [p \in Panels |-> FreshPanel]
    /\ widget = [p \in Panels |-> NoWidget]
    /\ calls = [p \in Panels |-> NoCalls]
    /\ handlers = NoHandlers
    /\ timers = <<>>
    /\ nextTimerId = 1
    /\ backend = NoBackend
    /\ heard = [p \in Panels |-> NoHeard]
    /\ mockEvents = NoMockEvents

LiveSpec ==
    /\ LiveInit
    /\ [][Next]_vars
    /\ WF_vars(\E d \in TimeSteps : Tick(d))
    /\ WF_vars(\E i \in DOMAIN timers, skew \in ClockSkews : AutoScrollTimer(i, skew))
    /\ WF_vars(Effects)
    /\ WF_vars(Rendering)

\* The widget of panel p is mounted and the last thing written to it, its n-th
\* write, is a data chunk containing ESC[H.
HomeChunkLast(p, n) ==
    /\ panel[p].phase = "mounted"
    /\ panel[p].terminalRef
    /\ Len(widget[p].written) = n
    /\ widget[p].written[n].by = "data"
    /\ Includes(widget[p].written[n].data, CursorHome)

\* Further data was written after the n-th write, or the force-scroll was, or
\* the panel is unmounted, or its widget is gone.
ScrolledOrOver(p, n) ==
    \/ panel[p].phase # "mounted"
    \/ ~panel[p].terminalRef
    \/ /\ Len(widget[p].written) > n
       /\ \/ widget[p].written[n + 1].by = "data"
          \/ widget[p].written[n + 1].data = MoveToBottom

\* C8: after a data chunk containing ESC[H was written, the panel
\* eventually writes ESC[9999;1H, unless further data for the session arrives
\* first, the panel is unmounted or the widget goes away.
C8_EventuallyScrolls ==
    \A p \in Panels, n \in 1..(2 * MaxEvents) :
        HomeChunkLast(p, n) ~> ScrolledOrOver(p, n)

\* The data of the terminal:data events the backend emitted for session sid.
RECURSIVE EmittedDataFor(_, _)
EmittedDataFor(emitted, sid) ==
    IF emitted = <<>> THEN <<>>
    ELSE IF Head(emitted).type = "terminal:data" /\ Head(emitted).payload.sessionId = sid
    THEN <<Head(emitted).payload.data>> \o EmittedDataFor(Tail(emitted), sid)
    ELSE EmittedDataFor(Tail(emitted), sid)

\* C10: in the MultiplePanels story the two panels hold different session ids,
\* and the widget of each mounted panel has been given exactly the terminal:data
\* output the backend emitted for that panel's session, the welcome prompt
\* included, and nothing of the other session.
C10_OwnOutputOnly ==
    /\ (Truthy(panel[1].sessionId) /\ Truthy(panel[2].sessionId))
       => panel[1].sessionId # panel[2].sessionId
    /\ \A p \in Panels :
          (panel[p].phase = "mounted" /\ Truthy(panel[p].sessionId))
          => DataOf(widget[p].written) =
                EmittedDataFor(backend.emitted, panel[p].sessionId)

\* ------------------------------------------- the single-panel stories' claims
DemoSessionId == <<"m", "o", "c", "k", "-", "s", "e", "s", "s", "i", "o", "n", "-", "1">>

DemoPrompt == PromptHead \o <<"m", "y", "-", "p", "r", "o", "j", "e", "c", "t">> \o PromptTail

DemoEmitted == EmittedDataFor(backend.emitted, DemoSessionId)

BackendTimerPending == \E i \in DOMAIN timers : timers[i].kind # "autoScroll"

IsPrefix(a, b) == Len(a) <= Len(b) /\ SubSeq(b, 1, Len(a)) = a

\* C11: once the user has typed l, s and Enter into the live session and the
\* backend's timers have run, the backend has emitted the output of ls for the
\* session, followed by a prompt.
C11_TypedCommandRuns ==
    (/\ widget[1].onData = << <<"l">>, <<"s">>, <<"\r">> >>
     /\ DemoSessionId \in DOMAIN backend.sessions
     /\ ~BackendTimerPending)
    => \E k \in 1..(Len(DemoEmitted) - 1) :
          DemoEmitted[k] = LsOutput /\ DemoEmitted[k + 1] = DemoPrompt

ExpectedInitialOutput(command) ==
    CASE command = GitStatusCommand -> <<GitStatus1, GitStatus2, GitStatus3, GitStatus4>>
      [] command = LsCommand -> <<LsOutput>>
      [] command = ClearCommand -> <<ClearScreenHome>>
      [] command = PaddedPwdCommand -> <<DefaultMockCwd \o <<"\n">> >>

ExpectedInitialData(command) ==
    <<DemoPrompt>> \o ExpectedInitialOutput(command) \o <<DemoPrompt>>

\* C13 as stated: for a session created with an initial command, the
\* terminal:data events of the session begin with the welcome prompt, the output
\* chunks of the command in program order, and a fresh prompt, in this order.
C13_DataOrdered ==
    props[1].command # UNDEFINED
    => \/ IsPrefix(DemoEmitted, ExpectedInitialData(props[1].command))
       \/ IsPrefix(ExpectedInitialData(props[1].command), DemoEmitted)

\* C13 as amended: the same as long as the user has typed nothing, and all of
\* these events have been emitted once the backend's timers have run; what the
\* user types after the fresh prompt leaves them at the head of the session's
\* events.
C13_InitialCommandOrder ==
    /\ []((/\ props[1].command # UNDEFINED
           /\ widget[1].onData = <<>>)
          => /\ IsPrefix(DemoEmitted, ExpectedInitialData(props[1].command))
             /\ (backend.sessionCounter = 1 /\ ~BackendTimerPending)
                => DemoEmitted = ExpectedInitialData(props[1].command))
    /\ [][(/\ props[1].command # UNDEFINED
           /\ IsPrefix(ExpectedInitialData(props[1].command), DemoEmitted))
          => IsPrefix(ExpectedInitialData(props[1].command), DemoEmitted')]_vars

C13_Witness ==
    /\ props[1].command = GitStatusCommand
    /\ widget[1].onData = <<>>
    /\ panel[1].phase = "mounted"
    /\ DemoEmitted = ExpectedInitialData(GitStatusCommand)
    /\ DataOf(widget[1].written) = DemoEmitted

\* --------------------------------------------------- the mock emitter's claim
\* C12: every emit has called, once each, exactly the probes subscribed to the
\* event's type at that moment, where a probe is subscribed from its on(type, h)
\* until off(type, h) or the function on returned is called; an off or an
\* unsubscribe of a pair not subscribed, or of a type the emitter has never
\* seen, changes nothing.
C12_EmitCallsSubscribed ==
    /\ mockEvents.received = mockEvents.due
    /\ \A type \in ProbeTypes :
          subscribed(mockEvents.handlers, type) =
              {h \in Probes : <<type, h>> \in mockEvents.live}

C12_Witness ==
    /\ mockEvents.received[1]["terminal:data"] = 1
    /\ mockEvents.received[2]["terminal:data"] = 2
    /\ mockEvents.received[1]["terminal:exit"] = 0
    /\ <<"terminal:data", 1>> \in mockEvents.returned \ mockEvents.live
    /\ "terminal:exit" \notin DOMAIN mockEvents.handlers
    /\ mockEvents.ops = MaxEmitterOps

\* ------------------------------------------------ the session helpers' claim
\* C14: getTerminalSessions is the data of the 'terminal' slice, or the empty
\* list when the slice is absent or has no data; getTerminalSession is the first
\* session of that list with the id, or undefined; the header title of the
\* widget is the cwd of the panel's session when it is found and its cwd is not
\* empty, and 'Terminal' otherwise.
SliceList(context) ==
    IF context.terminal.present /\ context.terminal.hasData
    THEN context.terminal.data ELSE <<>>

FirstWithId(list, id) ==
    IF \E i \in DOMAIN list : list[i].id = id
    THEN LET i == CHOOSE k \in DOMAIN list :
                    /\ list[k].id = id
                    /\ \A j \in 1..(k - 1) : list[j].id # id
         IN  [present |-> TRUE, id |-> list[i].id, cwd |-> list[i].cwd]
    ELSE [present |-> FALSE, id |-> <<>>, cwd |-> <<>>]

ExpectedTitle(context, id) ==
    LET found == FirstWithId(SliceList(context), id)
    IN  IF found.present /\ found.cwd # <<>> THEN found.cwd
        ELSE <<"T", "e", "r", "m", "i", "n", "a", "l">>

C14_SessionHelpers ==
    \A p \in Panels :
        /\ getTerminalSessions(props[p].context) = SliceList(props[p].context)
        /\ \A id \in SessionIds :
              getTerminalSession(props[p].context, id) =
                  FirstWithId(SliceList(props[p].context), id)
        /\ panel[p].view = "terminal"
           => widget[p].headerTitle = ExpectedTitle(props[p].context, panel[p].sessionId)

C14_Witness ==
    /\ panel[1].view = "terminal"
    /\ Len(SliceList(props[1].context)) = 3
    /\ panel[1].sessionId = SliceList(props[1].context)[2].id
    /\ panel[1].sessionId = SliceList(props[1].context)[3].id
    /\ widget[1].headerTitle = <<"/", "r">>

\* ------------------------------------------------- the auto-scroll's claims
\* The auto-scroll timers of panel p among the pending timers tms.
AutoScrollTimersIn(tms, p) ==
    {i \in DOMAIN tms : tms[i].kind = "autoScroll" /\ tms[i].panel = p}

HasHome(data) ==
    \E i \in 1..(Len(data) - 2) : data[i] = ESC /\ data[i + 1] = "[" /\ data[i + 2] = "H"

\* Among the writes after the first `start` ones there is a data chunk with
\* ESC[H that no force-scroll has followed yet.
HomePendingIn(written, start) ==
    \E i \in (start + 1)..Len(written) :
        /\ written[i].by = "data"
        /\ HasHome(written[i].data)
        /\ \A j \in (i + 1)..Len(written) : written[j].by # "autoScroll"

ScrollWritten(p) ==
    /\ Len(widget'[p].written) = Len(widget[p].written) + 1
    /\ widget'[p].written[Len(widget'[p].written)].by = "autoScroll"

DataWritten(p) == Len(heard'[p].data) = Len(heard[p].data) + 1

\* C15: whenever the force-scroll is written, at least 100 ms have passed since
\* the last data chunk written to the widget for the session; a chunk written
\* in between therefore postpones it.
C15_ScrollAfterQuiet ==
    [][\A p \in Panels :
         ScrollWritten(p)
         => /\ heard[p].data # <<>>
            /\ now' - heard[p].lastDataAt >= 100
            /\ widget'[p].written[Len(widget'[p].written)].data = MoveToBottom]_vars

C15_Witness ==
    /\ Len(heard[1].data) = 2
    /\ heard[1].lastDataAt = 50
    /\ now = 150
    /\ Len(widget[1].written) = 3
    /\ widget[1].written[3].by = "autoScroll"

\* No more than one auto-scroll timer of a panel is pending.
OneAutoScrollTimer ==
    \A p \in Panels : Cardinality(AutoScrollTimersIn(timers, p)) <= 1

\* C16: while a chunk with ESC[H written at any time has not been followed by a
\* force-scroll, every data chunk written leaves exactly one auto-scroll timer
\* pending, a new one due in 100 ms; and there is never more than one
\* auto-scroll timer pending.
C16_EveryChunkRearms ==
    /\ []OneAutoScrollTimer
    /\ [][\A p \in Panels :
            (DataWritten(p) /\ HomePendingIn(widget'[p].written, 0))
            => \E i \in DOMAIN timers' :
                  /\ AutoScrollTimersIn(timers', p) = {i}
                  /\ timers'[i].due = now + 100
                  /\ \A j \in DOMAIN timers : timers[j].id # timers'[i].id]_vars

\* C17: an auto-scroll timer is pending only while a chunk with ESC[H, written
\* since the subscription began, has not been followed by a force-scroll; every
\* force-scroll is written in such a situation; and a data chunk written
\* outside it leaves no timer pending.
C17_ScrollNeedsHome ==
    /\ [](\A p \in Panels :
            AutoScrollTimersIn(timers, p) # {}
            => HomePendingIn(widget[p].written, heard[p].subscribedAt))
    /\ [][\A p \in Panels :
            /\ ScrollWritten(p)
               => HomePendingIn(widget[p].written, heard[p].subscribedAt)
            /\ (DataWritten(p)
                /\ ~HomePendingIn(widget'[p].written, heard'[p].subscribedAt))
               => AutoScrollTimersIn(timers', p) = {}]_vars

C17_Witness ==
    /\ Len(widget[1].written) = 3
    /\ HasHome(widget[1].written[1].data)
    /\ widget[1].written[2].by = "autoScroll"
    /\ widget[1].written[3].by = "data"
    /\ ~HasHome(widget[1].written[3].data)
    /\ timers = <<>>
    /\ panel[1].terminalRef

\* C18: a panel has handlers only from its mount to the cleanups of its
\* unmount and with a session id, then one terminal:data and one terminal:exit
\* handler at most, on one emitter, and once its effects have run exactly one
\* of each on the emitter of its current props; a panel that was removed has,
\* once its cleanups have run, no handler and no auto-scroll timer, and from
\* the commit of the unmount on its widget and error never change again; the
\* step that ends a subscription (the effects after the unmount or after a
\* change of the events prop) leaves no handler of the panel on the old
\* emitter and no auto-scroll timer pending; an event that is neither for the
\* panel's session nor for its subscription writes nothing.
HandlersOn(p, e, type) == {h \in handlers[e][type] : h.panel = p}

PanelEvents == {"terminal:data", "terminal:exit"}

SubscriptionEnds(p) ==
    /\ panel[p].sub.live
    /\ ~panel'[p].sub.live \/ panel'[p].sub.events # panel[p].sub.events

\* The panel was removed and the cleanups of its effects have run.
TornDown(p) == panel[p].phase = "removed" /\ panel[p].effects = "none"

C18_SubscriptionLifecycle ==
    /\ [](\A p \in Panels, type \in PanelEvents :
            /\ Cardinality({e \in Emitters : HandlersOn(p, e, type) # {}}) <= 1
            /\ \A e \in Emitters :
                  HandlersOn(p, e, type) # {}
                  => /\ panel[p].phase \in {"mounted", "removed"}
                     /\ ~TornDown(p)
                     /\ panel[p].sessionId \notin {NULL, <<>>}
                     /\ HandlersOn(p, e, type) =
                            {[panel |-> p, sessionId |-> panel[p].sessionId]}
            /\ \A e \in Emitters :
                  (Rendered(p) /\ panel[p].effects = "none")
                  => HandlersOn(p, e, type) # {}
                        <=> (panel[p].sessionId \notin {NULL, <<>>}
                             /\ e = props[p].events))
    /\ [](\A p \in Panels : TornDown(p) => AutoScrollTimersIn(timers, p) = {})
    /\ [][\A p \in Panels :
            /\ panel[p].phase = "removed"
               => /\ widget'[p] = widget[p]
                  /\ panel'[p].error = panel[p].error
            /\ SubscriptionEnds(p)
               => /\ AutoScrollTimersIn(timers', p) = {}
                  /\ \A type \in PanelEvents :
                        handlers'[panel[p].sub.events][type]
                            = handlers[panel[p].sub.events][type]
                                \ HandlersOn(p, panel[p].sub.events, type)
            /\ heard'[p].otherData # heard[p].otherData
               => /\ widget'[p] = widget[p]
                  /\ panel'[p] = panel[p]]_vars

C18_Witness ==
    /\ panel[1].phase = "mounted"
    /\ heard[1].emitterChanged
    /\ props[1].events = 2
    /\ Len(widget[1].written) = 1
    /\ HasHome(widget[1].written[1].data)
    /\ heard[1].otherData = 1
    /\ timers = <<>>
    /\ HandlersOn(1, 1, "terminal:data") = {}
    /\ HandlersOn(1, 2, "terminal:data") # {}
    /\ used = MaxEvents

\* ------------------------------------------------------ the views' claims
\* C19: a mounted panel shows exactly one of three views, chosen by the state
\* its last render read: the error view whenever error is not null; otherwise
\* the 'Initializing' view whenever isInitializing is set or sessionId is null
\* or empty; otherwise the widget.
C19_OneOfThreeViews ==
    \A p \in Panels :
        panel[p].phase = "mounted"
        => panel[p].view =
              IF panel[p].shown.error # NULL THEN "error"
              ELSE IF panel[p].shown.isInitializing
                      \/ panel[p].shown.sessionId \in {NULL, <<>>}
                   THEN "initializing"
                   ELSE "terminal"

\* C20: a mounted panel that has been rendered since the createTerminalSession
\* promise settled is out of the 'Initializing' view: in the error view after
\* a rejection, showing the widget after a resolution with a session id (until
\* an error replaces it).
C20_SettledLeavesInitializing ==
    \A p \in Panels :
        Rendered(p)
        => /\ heard[p].rejections # <<>> => panel[p].view = "error"
           /\ panel[p].sessionId \notin {NULL, <<>>}
              => panel[p].view = IF panel[p].error = NULL THEN "terminal" ELSE "error"

\* ------------------------------------------------- the panel's state claims
\* C21 as stated: while the panel stays mounted, an error that is not null
\* stays not null; a panel rendered with such an error does not show the
\* widget, and the widget is not shown again; and a data event for the
\* session that arrives while the error is not null adds no write to the
\* widget.
ErrorStays(p) ==
    (panel[p].phase = "mounted" /\ panel[p].error # NULL /\ panel'[p].phase = "mounted")
    => /\ panel'[p].error # NULL
       /\ panel[p].view # "terminal" => panel'[p].view # "terminal"

NoWidgetWithError ==
    \A p \in Panels :
        (Rendered(p) /\ panel[p].error # NULL)
        => (panel[p].view # "terminal" /\ ~panel[p].terminalRef)

C21_NoWriteAfterError ==
    /\ []NoWidgetWithError
    /\ [][\A p \in Panels :
            /\ ErrorStays(p)
            /\ heard'[p].afterError # heard[p].afterError
               => widget'[p].written = widget[p].written]_vars

\* C21 as amended: the same, but only the data events that arrive after the
\* panel was rendered with the error add no write; one that arrives between
\* the terminal:exit event and the next render is written to the widget that
\* render removes.
C21_ErrorAbsorbing ==
    /\ []NoWidgetWithError
    /\ [][\A p \in Panels :
            /\ ErrorStays(p)
            /\ (Rendered(p) /\ panel[p].error # NULL /\ panel'[p].phase = "mounted")
               => widget'[p].written = widget[p].written]_vars

C21_Witness ==
    /\ panel[1].phase = "mounted"
    /\ heard[1].exits # <<>>
    /\ panel[1].error = ExpectedExitMessage(heard[1].exits[1])
    /\ Len(heard[1].data) = 1
    /\ heard[1].dropped = 1
    /\ heard[1].afterError = 1
    /\ Len(widget[1].written) = 1
    /\ panel[1].view = "error"

\* C22: sessionId is null until the one createTerminalSession call of the
\* mount resolves, takes the resolved value on that step, and never changes
\* again, whatever events (terminal:exit included) follow.
C22_SessionIdWriteOnce ==
    /\ [](\A p \in Panels :
            /\ Len(calls[p].createTerminalSession) <= 1
            /\ (panel[p].phase = "unmounted" \/ panel[p].pending)
               => panel[p].sessionId = NULL)
    /\ [][\A p \in Panels :
            panel'[p].sessionId # panel[p].sessionId
            => /\ panel[p].sessionId = NULL
               /\ panel[p].pending /\ ~panel'[p].pending
               /\ Len(calls[p].createTerminalSession) = 1
               /\ panel'[p].sessionId \in ResolvedIds]_vars

C22_Witness ==
    /\ panel[1].phase = "mounted"
    /\ panel[1].sessionId = <<"s", "1">>
    /\ heard[1].exits = <<137>>
    /\ heard[1].emitterChanged
    /\ Len(calls[1].createTerminalSession) = 1
    /\ used = MaxEvents

\* C23: a terminal:data event that arrives on the panel's emitter while
\* createTerminalSession is pending, or for the panel's session while no widget
\* is shown, changes nothing in the widget; and the widget is given data only
\* on the step on which an event for the session arrives at a shown widget,
\* and then that event's data, so nothing dropped is written later.
C23_NoBuffering ==
    [][\A p \in Panels :
         /\ (heard'[p].early # heard[p].early \/ heard'[p].dropped # heard[p].dropped)
            => widget'[p] = widget[p]
         /\ DataOf(widget'[p].written) # DataOf(widget[p].written)
            => /\ heard'[p].dropped = heard[p].dropped
               /\ heard'[p].early = heard[p].early
               /\ Len(heard'[p].data) = Len(heard[p].data) + 1
               /\ DataOf(widget'[p].written) =
                     Append(DataOf(widget[p].written),
                            heard'[p].data[Len(heard'[p].data)])]_vars

C23_Witness ==
    /\ heard[1].early = {<<"s", "1">>}
    /\ panel[1].sessionId = <<"s", "1">>
    /\ panel[1].terminalRef
    /\ Len(heard[1].data) = 1
    /\ DataOf(widget[1].written) = heard[1].data
    /\ Len(widget[1].written) = 1

\* C24: when the widget reports input and the host gave no writeToTerminal, or
\* reports a resize and the host gave no resizeTerminal, no action is called
\* and the panel's state (sessionId, error, isInitializing, view) and what the
\* widget was written are unchanged.
C24_OmittedActionDropsInput ==
    [][\A p \in Panels :
         /\ (widget'[p].onData # widget[p].onData /\ ~props[p].actions.writeToTerminal)
            => /\ calls' = calls
               /\ panel' = panel
               /\ widget'[p].written = widget[p].written
         /\ (widget'[p].onResize # widget[p].onResize /\ ~props[p].actions.resizeTerminal)
            => /\ calls' = calls
               /\ panel' = panel
               /\ widget'[p].written = widget[p].written]_vars

C24_Witness ==
    /\ ~props[1].actions.resizeTerminal
    /\ panel[1].sessionId = <<"s", "1">>
    /\ panel[1].view = "terminal"
    /\ panel[1].error = NULL
    /\ Len(widget[1].onResize) = 2
    /\ calls[1].resizeTerminal = <<>>
    /\ Len(widget[1].onData) = 1
    /\ Len(calls[1].writeToTerminal) = 1

\* C25: when the createTerminalSession promise resolves with a session id S
\* after the panel was unmounted, under a host that provides
\* destroyTerminalSession, destroyTerminalSession(S) is eventually called.
C25_LateSessionDestroyed ==
    \A p \in Panels :
        (/\ panel[p].phase = "removed"
         /\ heard[p].late \notin {NULL, <<>>}
         /\ props[p].actions.destroyTerminalSession)
        ~> (\E i \in DOMAIN calls[p].destroyTerminalSession :
               calls[p].destroyTerminalSession[i] = heard[p].late)

\* ------------------------------------------------- the mock backend's claims
Range(seq) == {seq[i] : i \in DOMAIN seq}

ExpectedMockId(n) ==
    <<"m", "o", "c", "k", "-", "s", "e", "s", "s", "i", "o", "n", "-">>
    \o << <<"0", "1", "2", "3", "4", "5", "6", "7", "8", "9">>[n + 1] >>

AllMockIds == {ExpectedMockId(n) : n \in 1..9}

\* C26: the n-th createSession call returns 'mock-session-n', so the returned
\* ids are pairwise different; an id enters the backend's session map exactly
\* on the call that returns it, and leaves it exactly on a destroySession call
\* for it.
C26_FreshSessionIds ==
    /\ [](/\ Len(heard[1].created) = Len(calls[1].createTerminalSession)
          /\ \A n \in DOMAIN heard[1].created : heard[1].created[n] = ExpectedMockId(n)
          /\ \A m, n \in DOMAIN heard[1].created :
                m # n => heard[1].created[m] # heard[1].created[n]
          /\ DOMAIN backend.sessions \subseteq Range(heard[1].created))
    /\ [][/\ heard'[1].created # heard[1].created
             => /\ Len(heard'[1].created) = Len(heard[1].created) + 1
                /\ DOMAIN backend.sessions' =
                      DOMAIN backend.sessions
                      \cup {heard'[1].created[Len(heard'[1].created)]}
          /\ \A id \in AllMockIds :
                /\ (id \in DOMAIN backend.sessions /\ id \notin DOMAIN backend.sessions')
                   => calls'[1].destroyTerminalSession =
                         Append(calls[1].destroyTerminalSession, id)
                /\ calls'[1].destroyTerminalSession =
                         Append(calls[1].destroyTerminalSession, id)
                   => id \notin DOMAIN backend.sessions'
                /\ (id \notin DOMAIN backend.sessions /\ id \in DOMAIN backend.sessions')
                   => heard'[1].created = Append(heard[1].created, id)]_vars

C26_Witness ==
    /\ Len(heard[1].created) = 2
    /\ calls[1].destroyTerminalSession = <<ExpectedMockId(1)>>
    /\ DOMAIN backend.sessions = {ExpectedMockId(2)}

\* The terminal:data event for session sid with data d, emitted on emitter e.
DataEvent(e, sid, d) ==
    [emitter |-> e, type |-> "terminal:data",
     payload |-> [present |-> TRUE, sessionId |-> sid, data |-> d, exitCode |-> 0]]

\* The prompt of a session: the last segment of the cwd it was created with.
ExpectedPromptOf(sid) ==
    LET n == CHOOSE k \in 1..9 : ExpectedMockId(k) = sid
    IN  IF calls[1].createTerminalSession[n].cwd = UNDEFINED
        THEN DemoPrompt
        ELSE PromptHead \o <<"w">> \o PromptTail

WriteStep == Len(calls'[1].writeToTerminal) = Len(calls[1].writeToTerminal) + 1

LastWrite == calls'[1].writeToTerminal[Len(calls'[1].writeToTerminal)]

ExpectedEcho(e, call) ==
    IF call.data = <<"\r">>
    THEN <<DataEvent(e, call.sessionId, call.data), DataEvent(e, call.sessionId, <<"\n">>)>>
    ELSE <<DataEvent(e, call.sessionId, call.data)>>

\* The timer of an Enter key (a command timer with the empty command) runs.
EnterTimerRuns(i) ==
    /\ timers[i].kind = "command"
    /\ timers[i].command = <<>>
    /\ Len(timers') = Len(timers) - 1
    /\ \A j \in DOMAIN timers' : timers'[j].id # timers[i].id

EnterTimerArmed(call) ==
    IF call.data = <<"\r">>
    THEN /\ Len(timers') = Len(timers) + 1
         /\ SubSeq(timers', 1, Len(timers)) = timers
         /\ timers'[Len(timers')].kind = "command"
         /\ timers'[Len(timers')].sessionId = call.sessionId
         /\ timers'[Len(timers')].command = <<>>
         /\ timers'[Len(timers')].due = now + 50
    ELSE timers' = timers

\* C27: a writeToTerminal call for a live session emits the input as
\* one terminal:data event for the session, for '\r' followed by a '\n' event
\* and, 50 ms later, by the prompt, and nothing else; a call for a session that
\* is not in the session map emits nothing and leaves backend and timers as
\* they were.
C27_WriteEchoes ==
    /\ [][WriteStep
          => IF LastWrite.sessionId \in DOMAIN backend.sessions
             THEN /\ backend'.emitted =
                        backend.emitted \o ExpectedEcho(backend.eventEmitter, LastWrite)
                  /\ backend'.sessions = backend.sessions
                  /\ EnterTimerArmed(LastWrite)
             ELSE backend' = backend /\ timers' = timers]_vars
    /\ [][\A i \in DOMAIN timers :
            EnterTimerRuns(i)
            => backend'.emitted =
                  Append(backend.emitted,
                         DataEvent(backend.eventEmitter, timers[i].sessionId,
                                   ExpectedPromptOf(timers[i].sessionId)))]_vars

C27_Witness ==
    /\ Len(calls[1].writeToTerminal) = 2
    /\ calls[1].writeToTerminal[1] = [sessionId |-> ExpectedMockId(2), data |-> <<"\r">>]
    /\ calls[1].writeToTerminal[2] = [sessionId |-> ExpectedMockId(1), data |-> <<"\r">>]
    /\ heard[1].created = <<ExpectedMockId(1)>>
    /\ backend.eventEmitter = 2
    /\ \E k \in DOMAIN backend.emitted :
          /\ k + 2 <= Len(backend.emitted)
          /\ backend.emitted[k] = DataEvent(2, ExpectedMockId(1), <<"\r">>)
          /\ backend.emitted[k + 1] = DataEvent(2, ExpectedMockId(1), <<"\n">>)
          /\ backend.emitted[k + 2] = DataEvent(2, ExpectedMockId(1), DemoPrompt)
    /\ \A k \in DOMAIN backend.emitted :
          backend.emitted[k].payload.sessionId # ExpectedMockId(2)

\* C28: in the log of the events the backend emitted, no terminal:data event
\* for a session comes after the terminal:exit event that destroySession
\* emitted for that session once it was created.
C28_NoDataAfterExit ==
    \A h, i, j \in DOMAIN backend.emitted :
        (/\ h < i /\ i < j
         /\ backend.emitted[h].type = "terminal:created"
         /\ backend.emitted[i].type = "terminal:exit"
         /\ backend.emitted[i].payload.sessionId = backend.emitted[h].payload.sessionId
         /\ backend.emitted[j].type = "terminal:data")
        => backend.emitted[j].payload.sessionId # backend.emitted[i].payload.sessionId
====
